---- MODULE Spec2Model ----
(***************************************************************************)
(* A model of the loopback-latency tool: the Producer's frame bookkeeping  *)
(* and stream thread, the three consumers' CaptureFrames, the orchestrator *)
(* (main) and the latency arithmetic of PrintLatencyResults.               *)
(*                                                                         *)
(* Producer.cpp (StartFrame, GetFrame, FuzzyMatch, StartStreaming,         *)
(* StopStreaming, IsStreaming) is not among the sources; those operations  *)
(* are modelled from the specification's section 4.6 and are marked so.    *)
(***************************************************************************)
EXTENDS Integers, Sequences, FiniteSets, TLC

VARIABLES
    build,            \* compile-time options: [aja, deepstream]
    argv,             \* main: the argument list (argv[1..])
    opts,             \* main: ProgramOptions
    pc,               \* main thread: position in main() / in the call it is making
    exitCode,         \* process exit status, meaningful once pc = "exited"
    errors,           \* the failures reported so far (Error(...) sites that are fatal by intent)
    calls,            \* history: the producer/consumer operations called, in order
    outputFile,       \* main: std::ofstream outputFile
    producer,         \* the producer object: [kind, env, state]
    m_streaming,      \* Producer::m_streaming
    streamThreads,    \* the running stream threads: a sequence of thread positions
    m_currentFrame,   \* Producer::m_currentFrame
    m_frames,         \* Producer::m_frames (frame numbers, oldest first)
    frame,            \* the Frame objects created so far, by number
    p_held,           \* producer: the resources its members hold (non-null pointers)
    p_released,       \* history: how many times each producer resource was released
    wire,             \* the frame number whose colour is on the loopback cable, NoFrame before any
    consumer,         \* kind of the constructed consumer, "none" when there is none
    c_frames,         \* Consumer::m_frames (the received list)
    c_held,           \* consumer: the resources it holds
    cap,              \* CaptureFrames: its locals and position
    gstc,             \* GStreamerConsumer: countdowns, m_eos and the pipeline's pending bus messages
    hist,             \* history: discarded / resolved captures, lookup misses, last stream call
    lastLookup,       \* history: the last GetFrame call [pixel, before, after, result]
    lat               \* PrintLatencyResults: the duration lists and the figures it prints

mainVars == <<build, argv, opts, pc, exitCode, errors, calls, outputFile>>
prodVars == <<producer, m_streaming, streamThreads, m_currentFrame, m_frames, frame,
              p_held, p_released, wire>>
consVars == <<consumer, c_frames, c_held, cap, gstc>>
vars == <<mainVars, prodVars, consVars, hist, lastLookup, lat>>
mainRest == <<build, argv, opts, exitCode, calls, outputFile>>
frameVars == <<m_currentFrame, m_frames, frame>>

(***************************************************************************)
(* Bounds of the model.                                                    *)
(***************************************************************************)
MaxStarted == 10     \* SpecGetFrame: frames the producer may start
MaxFrames == 3       \* capture and lifecycle runs: frames the producer may start
MaxNumFrames == 3    \* largest numFrames (-n) explored
MaxWarmup == 1       \* largest warmupFrames (-w) explored

NoFrame == -1       \* GetFrame's empty result; no frame on the cable yet

Last(s) == s[Len(s)]
SeqToSet(s) == {s[i] : i \in 1..Len(s)}
Abs(x) == IF x < 0 THEN -x ELSE x
MaxOf(S) == CHOOSE x \in S : \A y \in S : y <= x

(***************************************************************************)
(* Frame (Frame.h): the colour derived from the sequence number.           *)
(***************************************************************************)
FrameColorUnscaled(number) ==
    << ((number \div 256) % 16) + 8,
       ((number \div 16) % 16) + 8,
       (number % 16) + 8 >>

FrameColor(number) ==
    << ((number \div 256) % 16) * 16 + 8,
       ((number \div 16) % 16) * 16 + 8,
       (number % 16) * 16 + 8 >>

NewFrame(number) ==
    [m_number |-> number, m_duplicateReceives |-> 0]

(***************************************************************************)
(* Producer: shared frame bookkeeping (specification section 4.6).         *)
(***************************************************************************)
FUZZY_THRESHOLD == 8

FuzzyMatch(number, pixel, threshold) ==
    LET c == FrameColor(number)
    IN  /\ Abs(c[1] - pixel[1]) <= threshold
        /\ Abs(c[2] - pixel[2]) <= threshold
        /\ Abs(c[3] - pixel[3]) <= threshold

\* Index in list of the newest frame matching pixel, searching newest to oldest
\* from position i; 0 when none matches.
FindNewest(list, pixel, i) ==
    LET matches == {j \in 1..i : FuzzyMatch(list[j], pixel, FUZZY_THRESHOLD)}
    IN  IF matches = {} THEN 0
        ELSE CHOOSE j \in matches : \A k \in matches : k <= j

\* A lookup that evicts nothing.
GetFrameKeepAll(list, pixel) ==
    LET i == FindNewest(list, pixel, Len(list))
    IN  [result |-> IF i = 0 THEN NoFrame ELSE list[i], frames |-> list]

\* A GetFrame that evicts the oldest frame when it finds no match.
GetFrameEvictOnMiss(list, pixel) ==
    LET i == FindNewest(list, pixel, Len(list))
    IN  IF i = 0
        THEN [result |-> NoFrame,
              frames |-> IF list = <<>> THEN list ELSE SubSeq(list, 2, Len(list))]
        ELSE [result |-> list[i], frames |-> SubSeq(list, i, Len(list))]

\* GetFrame: [result, frames]: the match (NoFrame when none) and the retained
\* list afterwards, with every frame older than the match evicted.
GetFrame(list, pixel) ==
    LET i == FindNewest(list, pixel, Len(list))
    IN  IF i = 0
        THEN [result |-> NoFrame, frames |-> list]
        ELSE [result |-> list[i], frames |-> SubSeq(list, i, Len(list))]

\* StartFrame: the next sequence number is appended to the retained list.
StartFrame ==
    /\ m_frames' = Append(m_frames, m_currentFrame)
    /\ frame' = (m_currentFrame :> NewFrame(m_currentFrame)) @@ frame
    /\ m_currentFrame' = m_currentFrame + 1

\* A consumer's lookup: GetFrame under the list mutex, recorded in lastLookup.
Lookup(pixel) ==
    LET r == GetFrame(m_frames, pixel)
    IN  /\ m_frames' = r.frames
        /\ lastLookup' = [pixel |-> pixel, before |-> m_frames,
                          after |-> r.frames, result |-> r.result]

(***************************************************************************)
(* main.cpp: the program's options and ParseArguments.                     *)
(***************************************************************************)
DEFAULT_NUM_FRAMES == 600
DEFAULT_WARMUP_FRAMES == 60
DEFAULT_PRODUCER_TIME == 10
DEFAULT_SIMULATED_PROCESSING == 0

ProgramOptions ==
    [producerType |-> "PRODUCER_UNKNOWN", consumerType |-> "CONSUMER_UNKNOWN",
     format |-> "1080", numFrames |-> DEFAULT_NUM_FRAMES,
     warmupFrames |-> DEFAULT_WARMUP_FRAMES,
     simulatedProcessing |-> DEFAULT_SIMULATED_PROCESSING,
     outputFilename |-> "", producerRDMA |-> TRUE,
     producerTime |-> DEFAULT_PRODUCER_TIME, consumerRDMA |-> TRUE]

\* strtol(s, nullptr, 10) on the numerals the argument lists use; text that
\* does not start with a digit converts to 0.
StrToL(s) ==
    CASE s = "1" -> 1
      [] s = "2" -> 2
      [] s = "5" -> 5
      [] OTHER -> 0

FormatNames == {"720", "1080", "uhd-24", "uhd", "4k-24", "4k"}

\* The flags whose value is stored in a field the model does not keep.
DeviceFlags == {"-p.device", "-p.channel", "-c.device", "-c.channel"}

\* A usage error that is reported and then parsed past.
UsageReported(o, msg) == [opts |-> o, exit |-> "no", error |-> msg]

UsageError(o, msg) == [opts |-> o, exit |-> "usage", error |-> msg]

\* ParseArguments from argument i on: the options, and whether the parser
\* left the process (exit(0) after -h, exit(1) in USAGE_ERROR).
RECURSIVE ParseFrom(_, _, _)
ParseFrom(a, i, o) ==
    IF i > Len(a) THEN [opts |-> o, exit |-> "no", error |-> ""]
    ELSE LET flag == a[i]
             missing == i + 1 > Len(a)
             v == a[i + 1]
             next(o2) == ParseFrom(a, i + 2, o2)
         IN  CASE flag \in {"-h", "--help"} ->
                      [opts |-> o, exit |-> "help", error |-> ""]
               [] flag \in {"-p", "--producer"} ->
                      IF missing THEN UsageError(o, "usage: missing value for -p")
                      ELSE IF v \in {"gl", "opengl"}
                      THEN next([o EXCEPT !.producerType = "PRODUCER_GL"])
                      ELSE IF v = "aja"
                      THEN IF build.aja
                           THEN next([o EXCEPT !.producerType = "PRODUCER_AJA"])
                           ELSE UsageError(o, "usage: AJA producer not supported")
                      ELSE IF v \in {"gst", "gstreamer"}
                      THEN next([o EXCEPT !.producerType = "PRODUCER_GSTREAMER"])
                      ELSE UsageError(o, "usage: invalid value for -p")
               [] flag \in {"-c", "--consumer"} ->
                      IF missing THEN UsageError(o, "usage: missing value for -c")
                      ELSE IF v = "v4l2"
                      THEN next([o EXCEPT !.consumerType = "CONSUMER_V4L2"])
                      ELSE IF v = "aja"
                      THEN IF build.aja
                           THEN next([o EXCEPT !.consumerType = "CONSUMER_AJA"])
                           ELSE UsageError(o, "usage: AJA consumer not supported")
                      ELSE IF v \in {"gst", "gstreamer"}
                      THEN next([o EXCEPT !.consumerType = "CONSUMER_GSTREAMER"])
                      ELSE IF v = "none"
                      THEN next([o EXCEPT !.consumerType = "CONSUMER_NONE"])
                      ELSE UsageError(o, "usage: invalid value for -c")
               [] flag \in {"-f", "--format"} ->
                      IF missing THEN UsageError(o, "usage: missing value for -f")
                      ELSE IF v \in FormatNames THEN next([o EXCEPT !.format = v])
                      ELSE UsageError(o, "usage: invalid value for -f")
               [] flag = "-n" ->
                      IF missing THEN UsageError(o, "usage: missing value for -n")
                      ELSE next([o EXCEPT !.numFrames = StrToL(v)])
               [] flag = "-w" ->
                      IF missing THEN UsageError(o, "usage: missing value for -w")
                      ELSE next([o EXCEPT !.warmupFrames = StrToL(v)])
               [] flag = "-s" ->
                      IF missing THEN UsageError(o, "usage: missing value for -s")
                      ELSE next([o EXCEPT !.simulatedProcessing = StrToL(v)])
               [] flag = "-o" ->
                      IF missing THEN UsageError(o, "usage: missing value for -o")
                      ELSE next([o EXCEPT !.outputFilename = v])
               [] flag \in DeviceFlags ->
                      IF missing THEN UsageError(o, "usage: missing value for " \o flag)
                      ELSE next(o)
               [] flag = "-p.rdma" ->
                      IF missing THEN UsageError(o, "usage: missing value for -p.rdma")
                      ELSE next([o EXCEPT !.producerRDMA = (StrToL(v) # 0)])
               [] flag = "-p.time" ->
                      IF missing THEN UsageError(o, "usage: missing value for -p.time")
                      ELSE next([o EXCEPT !.producerTime = StrToL(v)])
               [] flag = "-c.rdma" ->
                      IF missing THEN UsageError(o, "usage: missing value for -c.rdma")
                      ELSE next([o EXCEPT !.consumerRDMA = (StrToL(v) # 0)])
               [] OTHER -> ParseFrom(a, i + 1, o)

ParseArguments(a) == ParseFrom(a, 1, ProgramOptions)

(***************************************************************************)
(* Producer: streaming (specification sections 4.6 and 5). StartStreaming  *)
(* sets the flag and spawns the stream thread; StopStreaming clears the    *)
(* flag and joins the thread, so it returns at joinPc's exit only.         *)
(***************************************************************************)
Producer_StartStreaming ==
    /\ m_streaming' = TRUE
    /\ streamThreads' = Append(streamThreads, [pc |-> "check", cur |-> NoFrame])

Producer_StopStreaming(joinPc, retPc) ==
    /\ m_streaming' = FALSE
    /\ pc' = joinPc
    /\ UNCHANGED streamThreads

\* StopStreaming's join: blocks until the stream thread has left its loop.
Producer_Join(retPc) ==
    /\ streamThreads # <<>>
    /\ Last(streamThreads).pc = "exited"
    /\ streamThreads' = SubSeq(streamThreads, 1, Len(streamThreads) - 1)
    /\ pc' = retPc
    /\ UNCHANGED m_streaming

\* GStreamerProducer::StopStreaming with the call of Producer::StopStreaming
\* left out: the pipeline goes to NULL and the call returns.
GStreamerProducer_StopStreamingNoBase(joinPc, retPc) ==
    /\ pc' = retPc
    /\ UNCHANGED <<m_streaming, streamThreads>>

\* GStreamerProducer: the pipeline's state is set, then the base operation runs.
GStreamerProducer_StartStreaming == Producer_StartStreaming

GStreamerProducer_StopStreaming(joinPc, retPc) ==
    Producer_StopStreaming(joinPc, retPc)

StartStreaming(kind) ==
    IF kind = "gst" THEN GStreamerProducer_StartStreaming ELSE Producer_StartStreaming

StopStreaming(kind, joinPc, retPc) ==
    IF kind = "gst"
    THEN GStreamerProducer_StopStreaming(joinPc, retPc)
    ELSE Producer_StopStreaming(joinPc, retPc)

(***************************************************************************)
(* The stream thread's loop, the same shape in the three backends:         *)
(*   check:   while (IsStreaming())                                        *)
(*   body:    StartFrame, processing, render, copy                         *)
(*   started: the frame is written to the output (swap / push / DMA write  *)
(*            and SetOutputFrame); its colour is on the cable from then on *)
(*   output:  wait for scanout, RecordScanoutStart                         *)
(***************************************************************************)
SetThread(i, t) == streamThreads' = [streamThreads EXCEPT ![i] = t]

ThreadCheck(i) ==
    /\ streamThreads[i].pc = "check"
    /\ m_streaming => m_currentFrame < MaxFrames
    /\ SetThread(i, [streamThreads[i] EXCEPT !.pc = IF m_streaming THEN "body" ELSE "exited"])
    /\ UNCHANGED <<frameVars, wire>>

ThreadStartFrame(i) ==
    /\ streamThreads[i].pc = "body"
    /\ StartFrame
    /\ SetThread(i, [pc |-> "started", cur |-> m_currentFrame])
    /\ UNCHANGED wire

ThreadOutput(i) ==
    /\ streamThreads[i].pc = "started"
    /\ wire' = streamThreads[i].cur
    /\ SetThread(i, [streamThreads[i] EXCEPT !.pc = "output"])
    /\ UNCHANGED frameVars

\* A loop that tests the flag only after every other body.
ThreadScanoutRepeats(i) ==
    /\ streamThreads[i].pc = "output"
    /\ SetThread(i, [streamThreads[i] EXCEPT
                         !.pc = IF m_currentFrame < MaxFrames THEN "body" ELSE "check"])
    /\ UNCHANGED <<frameVars, wire>>

ThreadScanout(i) ==
    /\ streamThreads[i].pc = "output"
    /\ SetThread(i, [streamThreads[i] EXCEPT !.pc = "check"])
    /\ UNCHANGED <<frameVars, wire>>

StreamThread ==
    /\ \E i \in 1..Len(streamThreads) :
           \/ ThreadCheck(i)
           \/ ThreadStartFrame(i)
           \/ ThreadOutput(i)
           \/ ThreadScanout(i)
    /\ UNCHANGED <<mainVars, producer, m_streaming, p_held, p_released, consVars, hist,
                   lastLookup, lat>>

(***************************************************************************)
(* Producer backends: Initialize and Close. Initialize's outcome depends   *)
(* on the environment env; it yields the value returned, the resources     *)
(* held afterwards and the errors reported.                                *)
(***************************************************************************)
ProducerKinds == {"gl", "gst", "aja"}

ProducerEnvs(kind) ==
    CASE kind = "gl" -> {"ok", "no_monitor", "mode_mismatch", "alloc_fail"}
      [] kind = "gst" -> {"ok", "element_fail", "alloc_fail", "display_mismatch"}
      [] kind = "aja" -> {"ok", "open_fail", "no_playback", "setup_fail"}

\* A value returned from a function declared bool: anything non-zero is true.
AsBool(v) == v \notin {"false", "AJA_STATUS_SUCCESS"}

GLProducer_Initialize(env) ==
    CASE env = "no_monitor" ->
             [ret |-> "false", held |-> {}, errors |-> {"producer: no display"}]
      [] env = "mode_mismatch" ->
             [ret |-> "false", held |-> {"window"}, errors |-> {"producer: display mode"}]
      [] env = "alloc_fail" ->
             [ret |-> "false", held |-> {"window"}, errors |-> {"producer: CUDA memory"}]
      [] OTHER ->
             [ret |-> "true", held |-> {"window", "cudaBuffer"}, errors |-> {}]

\* Initialize with the RDMA request accepted in every build.
GStreamerProducer_InitializeAnyBuild(env, useRDMA, deepstream) ==
    IF env = "ok"
    THEN [ret |-> "true", held |-> {"pipeline", "caps", "cudaBuffer", "loop"}, errors |-> {}]
    ELSE [ret |-> "false", held |-> {"pipeline"}, errors |-> {"producer: GStreamer element"}]

GStreamerProducer_Initialize(env, useRDMA, deepstream) ==
    LET pool == IF useRDMA /\ deepstream THEN {"pool"} ELSE {}
    IN  CASE env = "element_fail" ->
                 [ret |-> "false", held |-> {"pipeline"},
                  errors |-> {"producer: GStreamer element"}]
          [] env # "element_fail" /\ useRDMA /\ ~deepstream ->
                 [ret |-> "false", held |-> {"pipeline", "caps"},
                  errors |-> {"producer: RDMA requires DeepStream"}]
          [] env = "alloc_fail" /\ ~(useRDMA /\ ~deepstream) ->
                 [ret |-> "false", held |-> {"pipeline", "caps"} \cup pool,
                  errors |-> {"producer: CUDA memory"}]
          [] env = "display_mismatch" /\ ~(useRDMA /\ ~deepstream) ->
                 [ret |-> "false", held |-> {"pipeline", "caps", "cudaBuffer"} \cup pool,
                  errors |-> {"producer: display mode"}]
          [] OTHER ->
                 [ret |-> "true",
                  held |-> {"pipeline", "caps", "cudaBuffer", "loop"} \cup pool,
                  errors |-> {}]

AJAProducer_Initialize(env) ==
    CASE env = "open_fail" ->
             [ret |-> "false", held |-> {}, errors |-> {"producer: open AJA device"}]
      [] env = "no_playback" ->
             [ret |-> "AJA_STATUS_FEATURE", held |-> {"cudaBuffer"},
              errors |-> {"producer: cannot play video"}]
      [] env = "setup_fail" ->
             [ret |-> "false", held |-> {"cudaBuffer"},
              errors |-> {"producer: setup AJA device"}]
      [] OTHER ->
             [ret |-> "true", held |-> {"cudaBuffer"}, errors |-> {}]

ProducerInitialize(kind, env) ==
    CASE kind = "gl" -> GLProducer_Initialize(env)
      [] kind = "gst" ->
             GStreamerProducer_Initialize(env, opts.producerRDMA, build.deepstream)
      [] kind = "aja" -> AJAProducer_Initialize(env)

\* The resources in held are released, each counted in p_released.
Release(held) ==
    /\ p_released' = [r \in (DOMAIN p_released) \cup held |->
                         (IF r \in DOMAIN p_released THEN p_released[r] ELSE 0)
                         + (IF r \in held THEN 1 ELSE 0)]
    /\ p_held' = p_held \ held

\* GLProducer::Close and GStreamerProducer::Close after their StopStreaming:
\* every pointer that is not null is released and set to null.
ReleaseAll == Release(p_held)

\* AJAProducer::Close has an empty body.
AJAProducer_Close(retPc) ==
    /\ pc' = retPc
    /\ UNCHANGED <<m_streaming, streamThreads, p_held, p_released>>

\* GLProducer::Close / GStreamerProducer::Close up to the end of their
\* StopStreaming call, when streaming, or to their end.
StoppingClose(kind, joinPc, retPc) ==
    IF m_streaming
    THEN /\ StopStreaming(kind, joinPc, retPc)
         /\ UNCHANGED <<p_held, p_released>>
    ELSE /\ ReleaseAll
         /\ pc' = retPc
         /\ UNCHANGED <<m_streaming, streamThreads>>

Close(kind, joinPc, retPc) ==
    IF kind = "aja" THEN AJAProducer_Close(retPc) ELSE StoppingClose(kind, joinPc, retPc)

\* The rest of Close once its StopStreaming has joined the thread.
CloseAfterJoin(retPc) ==
    /\ Producer_Join(retPc)
    /\ ReleaseAll

(***************************************************************************)
(* Idle values of the parts a specification does not exercise.             *)
(***************************************************************************)
NoProducer == [kind |-> "none", env |-> "unknown", state |-> "none"]
NoConsumer == [kind |-> "none", env |-> "unknown", state |-> "none"]
NoCap == [pc |-> "idle", frame |-> 0, numFrames |-> 0, warmupFrames |-> 0,
          result |-> "none"]
NoGstc == [playing |-> FALSE, flowError |-> FALSE, bus |-> 0, m_eos |-> FALSE,
           m_numFrames |-> 0, m_warmupFramesRemaining |-> 0, m_framesRemaining |-> 0]
NoHist == [discarded |-> 0, resolved |-> <<>>, missed |-> FALSE, lastStream |-> "none",
           startedAtStop |-> 0]
NoLookup == [pixel |-> <<0, 0, 0>>, before |-> <<>>, after |-> <<>>, result |-> NoFrame]
NoLat == [state |-> "idle"]
NoReleases == [r \in {} |-> 0]

MainIdle ==
    /\ build = [aja |-> TRUE, deepstream |-> TRUE]
    /\ argv = <<>>
    /\ opts = ProgramOptions
    /\ exitCode = 0
    /\ errors = {}
    /\ calls = <<>>
    /\ outputFile = "closed"

ProducerFresh ==
    /\ m_streaming = FALSE
    /\ streamThreads = <<>>
    /\ m_currentFrame = 0
    /\ m_frames = <<>>
    /\ frame = [n \in {} |-> NewFrame(n)]
    /\ p_held = {}
    /\ p_released = NoReleases
    /\ wire = NoFrame

ConsumerIdle ==
    /\ consumer = NoConsumer
    /\ c_frames = <<>>
    /\ c_held = {}
    /\ cap = NoCap
    /\ gstc = NoGstc

(***************************************************************************)
(* Consumers: Initialize and Close of the three backends.                  *)
(***************************************************************************)
ConsumerKinds == {"v4l2", "gst", "aja"}

ConsumerEnvs(kind) ==
    CASE kind = "v4l2" -> {"ok", "open_fail", "format_fail", "alloc_fail"}
      [] kind = "gst" -> {"ok", "element_fail", "alloc_fail"}
      [] kind = "aja" -> {"ok", "open_fail", "no_capture", "setup_fail"}

V4L2Consumer_Initialize(env) ==
    CASE env = "open_fail" ->
             [ret |-> "false", held |-> {}, errors |-> {"consumer: open device"}]
      [] env = "format_fail" ->
             [ret |-> "false", held |-> {"fd"}, errors |-> {"consumer: format"}]
      [] env = "alloc_fail" ->
             [ret |-> "false", held |-> {"fd", "buffers"},
              errors |-> {"consumer: CUDA memory"}]
      [] OTHER ->
             [ret |-> "true", held |-> {"fd", "buffers", "cudaBuffer"}, errors |-> {}]

GStreamerConsumer_Initialize(env) ==
    CASE env = "element_fail" ->
             [ret |-> "false", held |-> {"pipeline"},
              errors |-> {"consumer: GStreamer element"}]
      [] env = "alloc_fail" ->
             [ret |-> "false", held |-> {"pipeline", "caps", "busWatch", "loop"},
              errors |-> {"consumer: CUDA memory"}]
      [] OTHER ->
             [ret |-> "true",
              held |-> {"pipeline", "caps", "busWatch", "loop", "cudaBuffer"},
              errors |-> {}]

AJAConsumer_Initialize(env) ==
    CASE env = "open_fail" ->
             [ret |-> "false", held |-> {}, errors |-> {"consumer: open AJA device"}]
      [] env = "no_capture" ->
             [ret |-> "AJA_STATUS_FEATURE", held |-> {"cudaBuffer"},
              errors |-> {"consumer: cannot capture video"}]
      [] env = "setup_fail" ->
             [ret |-> "false", held |-> {"cudaBuffer"},
              errors |-> {"consumer: setup AJA device"}]
      [] OTHER ->
             [ret |-> "true", held |-> {"cudaBuffer"}, errors |-> {}]

ConsumerInitialize(kind, env) ==
    CASE kind = "v4l2" -> V4L2Consumer_Initialize(env)
      [] kind = "gst" -> GStreamerConsumer_Initialize(env)
      [] kind = "aja" -> AJAConsumer_Initialize(env)

\* What Close leaves held: V4L2Consumer::Close unmaps the buffers and closes
\* the device, GStreamerConsumer::Close releases every pointer, AJAConsumer::Close
\* is empty.
ConsumerClose(kind, held) ==
    CASE kind = "v4l2" -> held \ {"fd", "buffers"}
      [] kind = "gst" -> {}
      [] OTHER -> held

(***************************************************************************)
(* CaptureFrames. A capture sees the colour of the frame on the cable      *)
(* (black before the first frame) or a pixel of no frame's colour.         *)
(***************************************************************************)
CapturedPixels ==
    {IF wire = NoFrame THEN <<0, 0, 0>> ELSE FrameColor(wire), <<255, 255, 255>>}

\* The duplicate test left out: every resolved frame is appended.
ResolveAlwaysAppend(pixel) ==
    LET r == GetFrame(m_frames, pixel)
    IN  /\ Lookup(pixel)
        /\ frame' = frame
        /\ c_frames' = IF r.result = NoFrame THEN c_frames ELSE Append(c_frames, r.result)
        /\ hist' = IF r.result = NoFrame
                   THEN [hist EXCEPT !.missed = TRUE]
                   ELSE [hist EXCEPT !.resolved = Append(@, r.result)]

\* The repeat of the last received frame dropped without being counted.
ResolveDropRepeat(pixel) ==
    LET r == GetFrame(m_frames, pixel)
    IN  /\ Lookup(pixel)
        /\ frame' = frame
        /\ c_frames' = IF r.result = NoFrame \/ (c_frames # <<>> /\ Last(c_frames) = r.result)
                       THEN c_frames ELSE Append(c_frames, r.result)
        /\ hist' = IF r.result = NoFrame
                   THEN [hist EXCEPT !.missed = TRUE]
                   ELSE [hist EXCEPT !.resolved = Append(@, r.result)]

\* A measured capture: the frame is looked up; one equal to the last received
\* frame is counted as a duplicate receive, any other is appended.
Resolve(pixel) ==
    LET r == GetFrame(m_frames, pixel)
    IN  /\ Lookup(pixel)
        /\ IF r.result = NoFrame
           THEN /\ UNCHANGED <<c_frames, frame>>
                /\ hist' = [hist EXCEPT !.missed = TRUE]
           ELSE /\ IF c_frames # <<>> /\ Last(c_frames) = r.result
                   THEN /\ frame' = [frame EXCEPT ![r.result].m_duplicateReceives = @ + 1]
                        /\ c_frames' = c_frames
                   ELSE /\ frame' = frame
                        /\ c_frames' = Append(c_frames, r.result)
                /\ hist' = [hist EXCEPT !.resolved = Append(@, r.result)]

Missed(pixel) == GetFrame(m_frames, pixel).result = NoFrame

CapFail == [cap EXCEPT !.pc = "done", !.result = "false"]

\* The state of CaptureFrames on entry.
StartCapture(kind, numFrames, warmupFrames) ==
    [pc |-> CASE kind = "v4l2" ->
                     IF numFrames + warmupFrames = 0 THEN "done" ELSE "select"
              [] kind = "gst" -> "setup"
              [] OTHER -> "warmup",
     frame |-> 0, numFrames |-> numFrames, warmupFrames |-> warmupFrames,
     result |-> IF kind = "v4l2" /\ numFrames + warmupFrames = 0 THEN "true" ELSE "none"]

capRest == <<mainRest, pc, prodVars, consumer, c_held, lat>>

\* V4L2Consumer::CaptureFrames: the readiness select with its 2 s timeout.
V4L2_Select ==
    /\ consumer.kind = "v4l2"
    /\ cap.pc = "select"
    /\ \E ret \in {"error", "timeout", "ready"} :
           IF ret = "ready"
           THEN cap' = [cap EXCEPT !.pc = "read"] /\ UNCHANGED errors
           ELSE cap' = CapFail /\ errors' = errors \cup {"capture: select " \o ret}
    /\ UNCHANGED <<capRest, c_frames, gstc, hist, lastLookup>>

V4L2_Advance ==
    IF cap.frame + 1 = cap.numFrames + cap.warmupFrames
    THEN [cap EXCEPT !.frame = @ + 1, !.pc = "done", !.result = "true"]
    ELSE [cap EXCEPT !.frame = @ + 1, !.pc = "select"]

\* V4L2Consumer::ReadFrame and the rest of the loop body.
V4L2_ReadFrame ==
    /\ consumer.kind = "v4l2"
    /\ cap.pc = "read"
    /\ \E dq \in {"eagain", "error", "ok"}, pixel \in CapturedPixels, q \in {"ok", "error"} :
           LET requeue == IF q = "ok"
                          THEN cap' = V4L2_Advance /\ UNCHANGED errors
                          ELSE cap' = CapFail /\ errors' = errors \cup {"capture: queue buffer"}
           IN  CASE dq = "eagain" ->
                        /\ cap' = [cap EXCEPT !.pc = "select"]
                        /\ UNCHANGED <<errors, m_frames, frame, c_frames, hist, lastLookup>>
                 [] dq = "error" ->
                        /\ cap' = CapFail
                        /\ errors' = errors \cup {"capture: dequeue buffer"}
                        /\ UNCHANGED <<m_frames, frame, c_frames, hist, lastLookup>>
                 [] dq = "ok" /\ cap.frame < cap.warmupFrames ->
                        /\ hist' = [hist EXCEPT !.discarded = @ + 1]
                        /\ requeue
                        /\ UNCHANGED <<m_frames, frame, c_frames, lastLookup>>
                 [] dq = "ok" /\ ~(cap.frame < cap.warmupFrames) ->
                        /\ Resolve(pixel)
                        /\ IF Missed(pixel)
                           THEN /\ cap' = CapFail
                                /\ errors' = errors \cup {"capture: read frame"}
                           ELSE requeue
    /\ UNCHANGED <<mainRest, pc, producer, m_streaming, streamThreads, m_currentFrame,
                   p_held, p_released, wire, consumer, c_held, gstc, lat>>

\* AJAConsumer::CaptureFrames: the warm-up wait for warmupFrames interrupts.
AJA_Warmup ==
    /\ consumer.kind = "aja"
    /\ cap.pc = "warmup"
    /\ hist' = [hist EXCEPT !.discarded = @ + cap.warmupFrames]
    /\ cap' = IF cap.numFrames = 0
              THEN [cap EXCEPT !.pc = "done", !.result = "true"]
              ELSE [cap EXCEPT !.pc = "loop"]
    /\ UNCHANGED <<capRest, errors, c_frames, gstc, lastLookup>>

\* AJAConsumer::CaptureFrames: one iteration of the frame loop.
AJA_Capture ==
    /\ consumer.kind = "aja"
    /\ cap.pc = "loop"
    /\ \E pixel \in CapturedPixels :
           /\ Resolve(pixel)
           /\ cap' = IF Missed(pixel) THEN CapFail
                     ELSE IF cap.frame + 1 = cap.numFrames
                     THEN [cap EXCEPT !.frame = @ + 1, !.pc = "done", !.result = "true"]
                     ELSE [cap EXCEPT !.frame = @ + 1]
    /\ UNCHANGED <<mainRest, pc, errors, producer, m_streaming, streamThreads,
                   m_currentFrame, p_held, p_released, wire, consumer, c_held, gstc, lat>>

(***************************************************************************)
(* GStreamerConsumer: CaptureFrames polls on the main thread while the     *)
(* pipeline's streaming thread delivers buffers to BufferCallback. A       *)
(* callback returning GST_FLOW_ERROR stops the pipeline's source, which    *)
(* posts an error message on the bus; the bus watch (BusCallbackStatic)    *)
(* runs when the default main context is iterated.                         *)
(***************************************************************************)
gstRest == <<mainRest, pc, errors, producer, m_streaming, streamThreads, m_currentFrame,
             p_held, p_released, wire, consumer, c_held, lat>>

\* CaptureFrames: the countdowns are set under m_frameCountMutex.
Gst_CaptureSetup ==
    /\ consumer.kind = "gst"
    /\ cap.pc = "setup"
    /\ gstc' = [gstc EXCEPT !.m_numFrames = cap.numFrames,
                            !.m_warmupFramesRemaining = cap.warmupFrames,
                            !.m_framesRemaining = cap.numFrames]
    /\ cap' = [cap EXCEPT !.pc = "clear_eos"]
    /\ UNCHANGED <<gstRest, m_frames, frame, c_frames, hist, lastLookup>>

\* CaptureFrames: m_eos = false, after the mutex has been released.
Gst_ClearEos ==
    /\ consumer.kind = "gst"
    /\ cap.pc = "clear_eos"
    /\ gstc' = [gstc EXCEPT !.m_eos = FALSE]
    /\ cap' = [cap EXCEPT !.pc = "iterate"]
    /\ UNCHANGED <<gstRest, m_frames, frame, c_frames, hist, lastLookup>>

\* CaptureFrames: g_main_context_iteration (a pending bus message is
\* dispatched to BusCallbackStatic), then the test of m_eos.
Gst_Iterate ==
    /\ consumer.kind = "gst"
    /\ cap.pc = "iterate"
    /\ LET eos == gstc.m_eos \/ gstc.bus > 0
       IN  /\ gstc' = [gstc EXCEPT !.bus = 0, !.m_eos = eos,
                                   !.playing = IF eos THEN FALSE ELSE @]
           /\ cap' = IF eos THEN CapFail ELSE [cap EXCEPT !.pc = "check"]
    /\ UNCHANGED <<gstRest, m_frames, frame, c_frames, hist, lastLookup>>

\* The poll testing the warm-up countdown alone.
Gst_CheckDoneWarmupOnly ==
    /\ consumer.kind = "gst"
    /\ cap.pc = "check"
    /\ cap' = IF gstc.m_warmupFramesRemaining = 0
              THEN [cap EXCEPT !.pc = "done", !.result = "true"]
              ELSE [cap EXCEPT !.pc = "iterate"]
    /\ UNCHANGED <<gstRest, gstc, m_frames, frame, c_frames, hist, lastLookup>>

\* CaptureFrames: done is read under the mutex.
Gst_CheckDone ==
    /\ consumer.kind = "gst"
    /\ cap.pc = "check"
    /\ cap' = IF gstc.m_framesRemaining = 0 /\ gstc.m_warmupFramesRemaining = 0
              THEN [cap EXCEPT !.pc = "done", !.result = "true"]
              ELSE [cap EXCEPT !.pc = "iterate"]
    /\ UNCHANGED <<gstRest, gstc, m_frames, frame, c_frames, hist, lastLookup>>

FlowError == [gstc EXCEPT !.flowError = TRUE, !.bus = 1]

\* BufferCallback, on the pipeline's streaming thread, under the mutex.
Gst_BufferCallback ==
    /\ consumer.kind = "gst"
    /\ gstc.playing
    /\ ~gstc.flowError
    /\ \E sample \in {"ok", "fail"}, pixel \in CapturedPixels :
           CASE sample = "fail" ->
                    /\ gstc' = FlowError
                    /\ errors' = errors \cup {"capture: GStreamer sample"}
                    /\ UNCHANGED <<m_frames, frame, c_frames, hist, lastLookup>>
             [] sample = "ok" /\ gstc.m_warmupFramesRemaining > 0 ->
                    /\ gstc' = [gstc EXCEPT !.m_warmupFramesRemaining = @ - 1]
                    /\ hist' = [hist EXCEPT !.discarded = @ + 1]
                    /\ UNCHANGED <<errors, m_frames, frame, c_frames, lastLookup>>
             [] sample = "ok" /\ gstc.m_warmupFramesRemaining = 0
                    /\ gstc.m_framesRemaining > 0 ->
                    /\ Resolve(pixel)
                    /\ gstc' = IF Missed(pixel) THEN FlowError
                               ELSE [gstc EXCEPT !.m_framesRemaining = @ - 1]
                    /\ UNCHANGED errors
             [] OTHER ->
                    UNCHANGED <<gstc, errors, m_frames, frame, c_frames, hist, lastLookup>>
    /\ UNCHANGED <<mainRest, pc, producer, m_streaming, streamThreads, m_currentFrame,
                   p_held, p_released, wire, consumer, c_held, cap, lat>>

\* The capture pipeline ends on its own: end of stream or a device error.
Gst_PipelineStops ==
    /\ consumer.kind = "gst"
    /\ gstc.playing
    /\ ~gstc.flowError
    /\ gstc' = FlowError
    /\ UNCHANGED <<gstRest, cap, m_frames, frame, c_frames, hist, lastLookup>>

\* GStreamerProducer::StreamThread iterates the same default main context at
\* the top of its loop body, so a pending message of the consumer's bus may be
\* dispatched on the producer's thread.
Gst_ProducerDispatch ==
    /\ producer.kind = "gst"
    /\ consumer.kind = "gst"
    /\ \E i \in 1..Len(streamThreads) : streamThreads[i].pc = "body"
    /\ gstc.bus > 0
    /\ gstc' = [gstc EXCEPT !.bus = 0, !.m_eos = TRUE]
    /\ UNCHANGED <<gstRest, cap, m_frames, frame, c_frames, hist, lastLookup>>

Capture ==
    \/ V4L2_Select
    \/ V4L2_ReadFrame
    \/ AJA_Warmup
    \/ AJA_Capture
    \/ Gst_CaptureSetup
    \/ Gst_ClearEos
    \/ Gst_Iterate
    \/ Gst_CheckDone
    \/ Gst_BufferCallback
    \/ Gst_PipelineStops
    \/ Gst_ProducerDispatch

(***************************************************************************)
(* SpecCapture: one CaptureFrames call of each consumer backend against a  *)
(* streaming producer, from the call's entry.                              *)
(***************************************************************************)
CC_Init ==
    /\ MainIdle /\ pc = "capture"
    /\ \E kind \in ProducerKinds :
           /\ producer = [kind |-> kind, env |-> "ok", state |-> "ok"]
           /\ p_held = ProducerInitialize(kind, "ok").held
    /\ m_streaming = TRUE
    /\ streamThreads = <<[pc |-> "check", cur |-> NoFrame]>>
    /\ m_currentFrame = 0
    /\ m_frames = <<>>
    /\ frame = [n \in {} |-> NewFrame(n)]
    /\ p_released = NoReleases
    /\ wire = NoFrame
    /\ \E kind \in ConsumerKinds, numFrames \in 1..MaxNumFrames,
          warmupFrames \in 0..MaxWarmup :
           /\ consumer = [kind |-> kind, env |-> "ok", state |-> "streaming"]
           /\ c_held = ConsumerInitialize(kind, "ok").held
           /\ cap = StartCapture(kind, numFrames, warmupFrames)
           /\ gstc = [NoGstc EXCEPT !.playing = (kind = "gst")]
    /\ c_frames = <<>>
    /\ hist = [NoHist EXCEPT !.lastStream = "StartStreaming"]
    /\ lastLookup = NoLookup
    /\ lat = NoLat

CC_Next == StreamThread \/ Capture

SpecCapture == CC_Init /\ [][CC_Next]_vars

RECURSIVE Dedupe(_)
Dedupe(s) ==
    IF Len(s) <= 1 THEN s
    ELSE LET d == Dedupe(SubSeq(s, 1, Len(s) - 1))
         IN  IF Last(d) = Last(s) THEN d ELSE Append(d, Last(s))
Count(s, n) == Cardinality({i \in 1..Len(s) : s[i] = n})
RECURSIVE SumDuplicates(_)
SumDuplicates(s) ==
    IF s = <<>> THEN 0
    ELSE frame[s[1]].m_duplicateReceives + SumDuplicates(SubSeq(s, 2, Len(s)))
Distinct(s) == \A i, j \in 1..Len(s) : i # j => s[i] # s[j]

\* C1 (as the code has it): in every backend no capture is resolved before
\* warmupFrames captures have been discarded and no more than warmupFrames are
\* discarded; a CaptureFrames call that returns success has discarded exactly
\* warmupFrames captures and resolved exactly numFrames measured captures. The
\* received list is the resolved frames with each run of repeats collapsed to
\* one entry (a repeat increments the duplicate counter instead), so it holds
\* numFrames minus the duplicate receives distinct frames.
C1_CaptureCounts ==
    /\ hist.discarded <= cap.warmupFrames
    /\ (hist.resolved # <<>> \/ hist.missed) => hist.discarded = cap.warmupFrames
    /\ c_frames = Dedupe(hist.resolved)
    /\ Distinct(c_frames)
    /\ cap.result = "true" =>
           /\ hist.discarded = cap.warmupFrames
           /\ Len(hist.resolved) = cap.numFrames
           /\ Len(c_frames) + SumDuplicates(c_frames) = cap.numFrames
C1_Witness ==
    /\ cap.result = "true"
    /\ cap.warmupFrames = 1
    /\ cap.numFrames = 2
    /\ Len(c_frames) = 1
    /\ frame[c_frames[1]].m_duplicateReceives = 1
\* C1 as stated: a successful CaptureFrames has discarded exactly warmupFrames
\* captures and retained exactly numFrames distinct frames.
C1_AsStated ==
    cap.result = "true" =>
        /\ hist.discarded = cap.warmupFrames
        /\ Len(c_frames) = cap.numFrames
        /\ Distinct(c_frames)

\* C4: a frame N resolved by consecutive measured captures has exactly one
\* entry in the received list, and its duplicate counter is the number of its
\* resolutions beyond the first of each run (two consecutive resolutions give
\* 1); a frame's counter is untouched by the resolution of any other frame, and
\* a frame never resolved is neither listed nor counted.
C4_DuplicateCount ==
    \A n \in DOMAIN frame :
        /\ Count(c_frames, n) = Count(Dedupe(hist.resolved), n)
        /\ Count(c_frames, n) <= 1
        /\ frame[n].m_duplicateReceives =
               Count(hist.resolved, n) - Count(Dedupe(hist.resolved), n)
C4_Witness ==
    \E n \in DOMAIN frame :
        /\ Count(hist.resolved, n) = 2
        /\ Len(hist.resolved) = 3
        /\ Count(c_frames, n) = 1
        /\ frame[n].m_duplicateReceives = 1

(***************************************************************************)
(* main(): one run of the tool. calls records each producer / consumer     *)
(* operation as it returns, with its result. A return from main destroys   *)
(* the output file, the consumer and the producer, in that order; exit()   *)
(* in ParseArguments destroys nothing.                                     *)
(***************************************************************************)
Called(op, ok) == Append(calls, [op |-> op, ok |-> ok, by |-> "main"])
Destroyed(op) == Append(calls, [op |-> op, ok |-> TRUE, by |-> "destructor"])

ProducerKindOf(type) ==
    CASE type = "PRODUCER_GL" -> "gl"
      [] type = "PRODUCER_AJA" -> "aja"
      [] type = "PRODUCER_GSTREAMER" -> "gst"
      [] OTHER -> "none"

ConsumerKindOf(type) ==
    CASE type = "CONSUMER_V4L2" -> "v4l2"
      [] type = "CONSUMER_AJA" -> "aja"
      [] type = "CONSUMER_GSTREAMER" -> "gst"
      [] OTHER -> "none"

\* return code; from main.
Return(code) == pc' = "return" /\ exitCode' = code

\* A parse that prints the usage when -h stands anywhere in the arguments.
M_ParseArgumentsHelpAnywhere ==
    /\ pc = "start"
    /\ LET r == ParseArguments(argv)
       IN  CASE r.exit = "help" \/ \E i \in 1..Len(argv) : argv[i] \in {"-h", "--help"} ->
                    /\ pc' = "exited" /\ exitCode' = 0
                    /\ UNCHANGED <<opts, errors>>
             [] r.exit = "usage" ->
                    /\ pc' = "exited" /\ exitCode' = 1
                    /\ errors' = errors \cup {r.error}
                    /\ UNCHANGED opts
             [] OTHER ->
                    /\ pc' = "parsed" /\ opts' = r.opts
                    /\ UNCHANGED <<exitCode, errors>>
    /\ UNCHANGED <<build, argv, calls, outputFile, prodVars, consVars, hist, lastLookup, lat>>

M_ParseArguments ==
    /\ pc = "start"
    /\ LET r == ParseArguments(argv)
       IN  CASE r.exit = "help" ->
                    /\ pc' = "exited" /\ exitCode' = 0
                    /\ UNCHANGED <<opts, errors>>
             [] r.exit = "usage" ->
                    /\ pc' = "exited" /\ exitCode' = 1
                    /\ errors' = errors \cup {r.error}
                    /\ UNCHANGED opts
             [] OTHER ->
                    /\ pc' = "parsed" /\ opts' = r.opts
                    /\ UNCHANGED <<exitCode, errors>>
    /\ UNCHANGED <<build, argv, calls, outputFile, prodVars, consVars, hist, lastLookup, lat>>

\* The simulated-workload mode, or the construction of producer and consumer.
SIMULATION_ITERATIONS == 500

\* The stand-alone workload for any run without a producer.
SimulatedWithoutProducer(o) ==
    o.producerType = "PRODUCER_UNKNOWN" /\ o.simulatedProcessing > 0

\* main's test for the stand-alone simulated workload.
SimulatedOnly(o) ==
    /\ o.producerType = "PRODUCER_UNKNOWN"
    /\ o.consumerType = "CONSUMER_UNKNOWN"
    /\ o.simulatedProcessing > 0

M_Construct ==
    /\ pc = "parsed"
    /\ IF SimulatedOnly(opts)
       THEN /\ pc' = "simulate"
            /\ UNCHANGED <<exitCode, errors, producer, consumer>>
       ELSE IF opts.producerType = "PRODUCER_UNKNOWN"
       THEN /\ Return(1)
            /\ errors' = errors \cup {"usage: missing producer"}
            /\ UNCHANGED <<producer, consumer>>
       ELSE /\ producer' = [kind |-> ProducerKindOf(opts.producerType),
                            env |-> "unknown", state |-> "constructed"]
            /\ IF opts.consumerType = "CONSUMER_UNKNOWN"
               THEN /\ Return(1)
                    /\ errors' = errors \cup {"usage: missing consumer"}
                    /\ UNCHANGED consumer
               ELSE /\ pc' = "open_output"
                    /\ consumer' = IF opts.consumerType = "CONSUMER_NONE" THEN NoConsumer
                                   ELSE [kind |-> ConsumerKindOf(opts.consumerType),
                                         env |-> "unknown", state |-> "constructed"]
                    /\ UNCHANGED <<exitCode, errors>>
    /\ UNCHANGED <<build, argv, opts, calls, outputFile, m_streaming, streamThreads,
                   frameVars, p_held, p_released, wire, c_frames, c_held, cap, gstc,
                   hist, lastLookup, lat>>

\* RunSimulatedProcessing: the buffer is allocated or not.
\* RunSimulatedProcessing: the allocation of the buffer.
M_Simulate ==
    /\ pc = "simulate"
    /\ \E allocated \in BOOLEAN :
           IF allocated
           THEN /\ pc' = "simulate_loop"
                /\ lat' = [state |-> "simulating", loops |-> opts.simulatedProcessing,
                           i |-> 0, runs |-> 0, durations |-> 0, summary |-> FALSE]
                /\ UNCHANGED <<exitCode, errors>>
           ELSE Return(1) /\ errors' = errors \cup {"simulate: CUDA buffer"} /\ UNCHANGED lat
    /\ UNCHANGED <<build, argv, opts, calls, outputFile, prodVars, consVars, hist,
                   lastLookup>>

\* RunSimulatedProcessing: one iteration of the timed loop; durations is the
\* size of the DurationList.
M_SimulateRun ==
    /\ pc = "simulate_loop"
    /\ lat.i < SIMULATION_ITERATIONS
    /\ lat' = [lat EXCEPT !.runs = @ + 1, !.durations = @ + 1, !.i = @ + 1]
    /\ UNCHANGED <<mainVars, prodVars, consVars, hist, lastLookup>>

\* RunSimulatedProcessing: the summary, the release of the buffer, return 0.
M_SimulateDone ==
    /\ pc = "simulate_loop"
    /\ ~(lat.i < SIMULATION_ITERATIONS)
    /\ lat' = [lat EXCEPT !.state = "simulated", !.summary = TRUE]
    /\ Return(0)
    /\ UNCHANGED <<build, argv, opts, errors, calls, outputFile, prodVars, consVars, hist,
                   lastLookup>>

\* The file behind the stream: "closed" while it was never opened (nothing on
\* disk was touched), "open" once open() has created or truncated it,
\* "written" once the header and rows were streamed to it; closing the stream
\* leaves an "empty" file or the "saved" results.
CloseFile(file) ==
    CASE file = "written" -> "saved"
      [] file = "open" -> "empty"
      [] OTHER -> file

M_OpenOutput ==
    /\ pc = "open_output"
    /\ IF opts.outputFilename = ""
       THEN pc' = "p_init" /\ UNCHANGED <<exitCode, errors, outputFile>>
       ELSE \E opened \in BOOLEAN :
                IF opened
                THEN /\ pc' = "p_init" /\ outputFile' = "open"
                     /\ UNCHANGED <<exitCode, errors>>
                ELSE /\ Return(1)
                     /\ errors' = errors \cup {"output: could not open file"}
                     /\ UNCHANGED outputFile
    /\ UNCHANGED <<build, argv, opts, calls, prodVars, consVars, hist, lastLookup, lat>>

M_ProducerInitialize ==
    /\ pc = "p_init"
    /\ \E env \in ProducerEnvs(producer.kind) :
           LET r == ProducerInitialize(producer.kind, env)
           IN  /\ p_held' = r.held
               /\ calls' = Called("p.Initialize", AsBool(r.ret))
               /\ IF AsBool(r.ret)
                  THEN /\ producer' = [producer EXCEPT !.env = env, !.state = "ok"]
                       /\ pc' = "p_start"
                       /\ errors' = errors \cup r.errors
                       /\ UNCHANGED exitCode
                  ELSE /\ producer' = [producer EXCEPT !.env = env, !.state = "failed"]
                       /\ Return(1)
                       /\ errors' = errors \cup r.errors \cup {"main: initialize producer"}
    /\ UNCHANGED <<build, argv, opts, outputFile, m_streaming, streamThreads, frameVars,
                   p_released, wire, consVars, hist, lastLookup, lat>>

\* producer->StartStreaming(): main tests its result, so both results are taken;
\* a call that fails has started no thread.
M_ProducerStartStreaming ==
    /\ pc = "p_start"
    /\ \E started \in BOOLEAN :
           IF started
           THEN /\ StartStreaming(producer.kind)
                /\ calls' = Called("p.StartStreaming", TRUE)
                /\ hist' = [hist EXCEPT !.lastStream = "StartStreaming"]
                /\ pc' = IF consumer.kind = "none" THEN "sleep" ELSE "c_init"
                /\ UNCHANGED <<exitCode, errors>>
           ELSE /\ calls' = Called("p.StartStreaming", FALSE)
                /\ Return(1)
                /\ errors' = errors \cup {"main: start producer streaming"}
                /\ UNCHANGED <<m_streaming, streamThreads, hist>>
    /\ UNCHANGED <<build, argv, opts, outputFile, producer, frameVars, p_held, p_released,
                   wire, consVars, lastLookup, lat>>

M_ConsumerInitialize ==
    /\ pc = "c_init"
    /\ \E env \in ConsumerEnvs(consumer.kind) :
           LET r == ConsumerInitialize(consumer.kind, env)
           IN  /\ c_held' = r.held
               /\ calls' = Called("c.Initialize", AsBool(r.ret))
               /\ IF AsBool(r.ret)
                  THEN /\ consumer' = [consumer EXCEPT !.env = env, !.state = "ok"]
                       /\ pc' = "c_start"
                       /\ errors' = errors \cup r.errors
                       /\ UNCHANGED exitCode
                  ELSE /\ consumer' = [consumer EXCEPT !.env = env, !.state = "failed"]
                       /\ Return(1)
                       /\ errors' = errors \cup r.errors \cup {"main: initialize consumer"}
    /\ UNCHANGED <<build, argv, opts, outputFile, prodVars, c_frames, cap, gstc, hist,
                   lastLookup, lat>>

\* consumer->StartStreaming() and, when it succeeds, the entry of CaptureFrames.
\* V4L2Consumer queues its buffers and turns the stream on, either of which
\* may fail; GStreamerConsumer sets its pipeline playing; AJAConsumer does
\* nothing.
M_ConsumerStartStreaming ==
    /\ pc = "c_start"
    /\ \E started \in (IF consumer.kind = "v4l2" THEN BOOLEAN ELSE {TRUE}) :
           IF started
           THEN /\ consumer' = [consumer EXCEPT !.state = "streaming"]
                /\ gstc' = [gstc EXCEPT !.playing = (consumer.kind = "gst")]
                /\ cap' = StartCapture(consumer.kind, opts.numFrames, opts.warmupFrames)
                /\ calls' = Called("c.StartStreaming", TRUE)
                /\ pc' = "capture"
                /\ UNCHANGED <<exitCode, errors>>
           ELSE /\ calls' = Called("c.StartStreaming", FALSE)
                /\ Return(1)
                /\ errors' = errors \cup {"consumer: start streaming",
                                          "main: start consumer streaming"}
                /\ UNCHANGED <<consumer, gstc, cap>>
    /\ UNCHANGED <<build, argv, opts, outputFile, prodVars, c_frames, c_held, hist,
                   lastLookup, lat>>

\* CaptureFrames has returned.
M_CaptureReturn ==
    /\ pc = "capture"
    /\ cap.pc = "done"
    /\ calls' = Called("c.CaptureFrames", cap.result = "true")
    /\ IF cap.result = "true"
       THEN pc' = "c_stop" /\ UNCHANGED <<exitCode, errors>>
       ELSE Return(1) /\ errors' = errors \cup {"main: frame capture"}
    /\ UNCHANGED <<build, argv, opts, outputFile, prodVars, consVars, hist, lastLookup, lat>>

\* consumer->StopStreaming(); consumer->Close(); PrintLatencyResults;
\* WriteLatencyResults, which writes to an open file when frames were received.
M_ConsumerStopClose ==
    /\ pc = "c_stop"
    /\ consumer' = [consumer EXCEPT !.state = "closed"]
    /\ gstc' = [gstc EXCEPT !.playing = FALSE]
    /\ c_held' = ConsumerClose(consumer.kind, c_held)
    /\ calls' = Append(Called("c.StopStreaming", TRUE),
                        [op |-> "c.Close", ok |-> TRUE, by |-> "main"])
    /\ outputFile' = IF outputFile = "open" /\ c_frames # <<>> THEN "written" ELSE outputFile
    /\ pc' = "p_stop"
    /\ UNCHANGED <<build, argv, opts, exitCode, errors, prodVars, c_frames, cap, hist,
                   lastLookup, lat>>

\* A sleep of the default time whatever -p.time says.
SleepDefault(o) == DEFAULT_PRODUCER_TIME

\* The seconds main sleeps for without a consumer.
SleepTime(o) == o.producerTime

\* sleep(opts.producerTime) while the producer streams.
M_Sleep ==
    /\ pc = "sleep"
    /\ calls' = Append(calls, [op |-> "sleep", ok |-> TRUE, by |-> "main",
                               seconds |-> SleepTime(opts)])
    /\ pc' = "p_stop"
    /\ UNCHANGED <<build, argv, opts, exitCode, outputFile, errors, prodVars, consVars, hist,
                   lastLookup, lat>>

\* producer->StopStreaming(), up to its join.
M_ProducerStop ==
    /\ pc = "p_stop"
    /\ StopStreaming(producer.kind, "p_stop_join", "p_close")
    /\ hist' = [hist EXCEPT !.lastStream = "StopStreaming", !.startedAtStop = m_currentFrame]
    /\ UNCHANGED <<mainRest, errors, producer, frameVars, p_held, p_released, wire,
                   consVars, lastLookup, lat>>

M_ProducerStopJoin ==
    /\ pc = "p_stop_join"
    /\ Producer_Join("p_close")
    /\ calls' = Called("p.StopStreaming", TRUE)
    /\ hist' = [hist EXCEPT !.startedAtStop = m_currentFrame]
    /\ UNCHANGED <<build, argv, opts, exitCode, outputFile, errors, producer, frameVars,
                   p_held, p_released, wire, consVars, lastLookup, lat>>

\* producer->Close(), called when the producer is not streaming any more.
M_ProducerClose ==
    /\ pc = "p_close"
    /\ Close(producer.kind, "p_close_join", "finish")
    /\ producer' = [producer EXCEPT !.state = "closed"]
    /\ calls' = Called("p.Close", TRUE)
    /\ UNCHANGED <<build, argv, opts, exitCode, outputFile, errors, frameVars, wire,
                   consVars, hist, lastLookup, lat>>

\* The output file is closed when open; return 0.
M_Finish ==
    /\ pc = "finish"
    /\ outputFile' = CloseFile(outputFile)
    /\ Return(0)
    /\ UNCHANGED <<build, argv, opts, errors, calls, prodVars, consVars, hist, lastLookup,
                   lat>>

\* The return from main destroys outputFile, then the consumer: ~V4L2Consumer
\* and ~GStreamerConsumer call Close, ~AJAConsumer is empty.
M_DestroyConsumer ==
    /\ pc = "return"
    /\ outputFile' = CloseFile(outputFile)
    /\ IF consumer.kind \in {"v4l2", "gst"}
       THEN /\ c_held' = ConsumerClose(consumer.kind, c_held)
            /\ calls' = Destroyed("c.Close")
            /\ gstc' = gstc
       ELSE UNCHANGED <<c_held, calls, gstc>>
    /\ pc' = "destroy_producer"
    /\ UNCHANGED <<build, argv, opts, exitCode, errors, prodVars, consumer, c_frames, cap,
                   hist, lastLookup, lat>>

\* Then the producer: ~GLProducer and ~GStreamerProducer call Close, which
\* stops a producer that is streaming; ~AJAProducer is empty. No producer
\* exists when main returned before constructing one.
M_DestroyProducer ==
    /\ pc = "destroy_producer"
    /\ IF producer.kind \in {"gl", "gst"}
       THEN /\ StoppingClose(producer.kind, "destroy_join", "exited")
            /\ calls' = IF pc' = "exited" THEN Destroyed("p.Close") ELSE calls
            /\ hist' = IF pc' = "destroy_join"
                       THEN [hist EXCEPT !.lastStream = "StopStreaming",
                                         !.startedAtStop = m_currentFrame]
                       ELSE hist
       ELSE /\ pc' = "exited"
            /\ UNCHANGED <<m_streaming, streamThreads, p_held, p_released, calls, hist>>
    /\ UNCHANGED <<build, argv, opts, exitCode, outputFile, errors, producer, frameVars,
                   wire, consVars, lastLookup, lat>>

M_DestroyJoin ==
    /\ pc = "destroy_join"
    /\ CloseAfterJoin("exited")
    /\ calls' = Append(Destroyed("p.StopStreaming"),
                       [op |-> "p.Close", ok |-> TRUE, by |-> "destructor"])
    /\ hist' = [hist EXCEPT !.startedAtStop = m_currentFrame]
    /\ UNCHANGED <<build, argv, opts, exitCode, outputFile, errors, producer, frameVars,
                   wire, consVars, lastLookup, lat>>

Main ==
    \/ M_ParseArguments
    \/ M_Construct
    \/ M_Simulate
    \/ M_SimulateRun
    \/ M_SimulateDone
    \/ M_OpenOutput
    \/ M_ProducerInitialize
    \/ M_ProducerStartStreaming
    \/ M_ConsumerInitialize
    \/ M_ConsumerStartStreaming
    \/ M_CaptureReturn
    \/ M_ConsumerStopClose
    \/ M_Sleep
    \/ M_ProducerStop
    \/ M_ProducerStopJoin
    \/ M_ProducerClose
    \/ M_Finish
    \/ M_DestroyConsumer
    \/ M_DestroyProducer
    \/ M_DestroyJoin

(***************************************************************************)
(* Spec: runs of the tool over command lines and builds.                   *)
(***************************************************************************)
Producers == {"gl", "gst", "aja"}
Consumers == {"v4l2", "gst", "aja", "none"}

RunArgs == {<<"-p", p, "-c", c, "-n", "1", "-w", "0">> : p \in Producers, c \in Consumers}

OtherArgs ==
    { <<>>,
      <<"-h">>,
      <<"-p">>,
      <<"-n">>,
      <<"-p", "vhs">>,
      <<"-c", "gst">>,
      <<"-p", "gl">>,
      <<"-s", "5">>,
      <<"-s", "0">>,
      <<"-c", "none", "-s", "5">>,
      <<"-p", "gl", "-c", "none", "-s", "5">>,
      <<"-p", "gl", "-c", "none", "-p.time", "5">>,
      <<"-f", "2160">>,
      <<"-p", "gl", "-c", "none", "-o">>,
      <<"-p", "gl", "-c", "v4l2", "-n", "2", "-w", "1", "-o", "out.csv">>,
      <<"-p", "gst", "-c", "none", "-p.rdma", "0">>,
      <<"-p", "gst", "-c", "gst", "-p.rdma", "1", "-n", "1", "-w", "1">> }

\* The flags ParseArguments reads a value for, in their short and long spellings.
ValueFlags ==
    {"-p", "--producer", "-c", "--consumer", "-f", "--format", "-n", "-w", "-s", "-o",
     "-p.device", "-p.channel", "-p.rdma", "-p.time", "-c.device", "-c.channel", "-c.rdma"}

\* Argument lists that end in a flag: alone, after a complete command line,
\* after -h, in the place of another flag's value, and after an invalid value.
MissingValueArgs ==
    {<<f>> : f \in ValueFlags}
    \cup {<<"-p", "gl", "-c", "none", f>> : f \in ValueFlags}
    \cup {<<"-h", "-n">>, <<"-o", "-n">>, <<"-p", "vhs", "-n">>}

ArgLists == RunArgs \cup OtherArgs \cup MissingValueArgs

Init ==
    /\ build \in [aja : BOOLEAN, deepstream : BOOLEAN]
    /\ argv \in ArgLists
    /\ opts = ProgramOptions
    /\ pc = "start"
    /\ exitCode = 0
    /\ errors = {}
    /\ calls = <<>>
    /\ outputFile = "closed"
    /\ producer = NoProducer
    /\ ProducerFresh
    /\ ConsumerIdle
    /\ hist = NoHist
    /\ lastLookup = NoLookup
    /\ lat = NoLat

Next ==
    \/ Main
    \/ (pc # "exited" /\ StreamThread)
    \/ (pc = "capture" /\ Capture)

Spec == Init /\ [][Next]_vars

RanOk(op) == \E i \in DOMAIN calls : calls[i].op = op /\ calls[i].ok

\* C7: when the AJA device opened by the producer cannot play video, or the
\* one opened by the consumer cannot capture, Initialize returns failure, main
\* reports the initialization failure, and the producer never streams / the
\* consumer never captures on that device.
C7_CapabilityChecked ==
    /\ (producer.kind = "aja" /\ producer.env = "no_playback") =>
           /\ producer.state = "failed"
           /\ "main: initialize producer" \in errors
           /\ ~m_streaming /\ streamThreads = <<>>
    /\ (consumer.kind = "aja" /\ consumer.env = "no_capture") =>
           /\ consumer.state = "failed"
           /\ "main: initialize consumer" \in errors
           /\ cap.pc = "idle"

\* What a capture step reports about one buffer; CaptureFrames fails on them
\* when it sees them, which main then reports.
CaptureReports ==
    {"capture: select error", "capture: select timeout", "capture: dequeue buffer",
     "capture: queue buffer", "capture: read frame", "capture: GStreamer sample"}

\* C6: the exit status is 0 or 1, and it is 1 exactly in the runs that reported
\* a failure (usage, Initialize, StartStreaming, CaptureFrames, output file);
\* a successful run and a help request exit with 0.
C6_ExitStatus ==
    pc = "exited" =>
        /\ exitCode \in {0, 1}
        /\ (exitCode = 1) <=> (errors \ CaptureReports # {})

\* C5: a run whose producer StartStreaming succeeded has, when the process
\* exits, run the producer's StopStreaming and then its Close, both after the
\* last consumer operation main called, and the producer streams no more.
C5_ProducerStoppedLast ==
    (pc = "exited" /\ RanOk("p.StartStreaming")) =>
        /\ \E i, j \in DOMAIN calls :
               /\ i < j
               /\ calls[i].op = "p.StopStreaming"
               /\ calls[j].op = "p.Close"
               /\ \A k \in DOMAIN calls :
                      (calls[k].by = "main" /\ calls[k].op \in
                           {"c.Initialize", "c.StartStreaming", "c.CaptureFrames",
                            "c.StopStreaming", "c.Close"}) => k < i
        /\ ~m_streaming
        /\ streamThreads = <<>>

\* GStreamerConsumer::CaptureFrames polling with nothing left to end it: the
\* lookup missed, the pipeline has stopped delivering buffers, the error message
\* has left the bus and m_eos is false.
C2_WaitsForever ==
    /\ hist.missed
    /\ consumer.kind = "gst"
    /\ pc = "capture"
    /\ cap.pc \in {"iterate", "check"}
    /\ gstc.flowError /\ gstc.bus = 0 /\ ~gstc.m_eos
    /\ gstc.m_framesRemaining > 0

\* Once CaptureFrames polls in that state it polls in it for ever.
C2_WaitsForeverStays == [][C2_WaitsForever => C2_WaitsForever']_vars

\* C2: in each consumer backend, after a lookup miss for a measured capture
\* the CaptureFrames call returns failure, never success, the process exits
\* with status 1, and CaptureFrames is never left waiting for ever.
C2_LookupMissFails ==
    /\ (hist.missed /\ cap.pc = "done") => cap.result = "false"
    /\ (hist.missed /\ pc = "exited") => exitCode = 1
    /\ ~C2_WaitsForever

(***************************************************************************)
(* SpecGetFrame: StartFrame and GetFrame on one Producer, the lookups      *)
(* drawn from pixels at and around the colours of the frames started.      *)
(***************************************************************************)
Clip(x) == IF x < 0 THEN 0 ELSE IF x > 255 THEN 255 ELSE x
Drifts == {<<3, -9>>, <<3, -8>>, <<3, 0>>, <<3, 8>>, <<3, 9>>, <<1, 8>>, <<2, 9>>}
Shifted(c, ch, d) == [i \in 1..3 |-> IF i = ch THEN Clip(c[i] + d) ELSE c[i]]
PixelDomain ==
    {<<0, 0, 0>>, <<8, 8, 152>>} \cup
    {Shifted(FrameColor(n), cd[1], cd[2]) : n \in 0..(MaxStarted - 1), cd \in Drifts}

GF_Init ==
    /\ MainIdle /\ pc = "getframe"
    /\ producer = [kind |-> "gl", env |-> "ok", state |-> "ok"]
    /\ ProducerFresh
    /\ ConsumerIdle
    /\ hist = NoHist
    /\ lastLookup = NoLookup
    /\ lat = NoLat

GF_StartFrame ==
    /\ m_currentFrame < MaxStarted
    /\ StartFrame
    /\ UNCHANGED <<mainVars, producer, m_streaming, streamThreads, p_held, p_released,
                   wire, consVars, hist, lastLookup, lat>>

GF_GetFrame ==
    /\ \E pixel \in PixelDomain : Lookup(pixel)
    /\ UNCHANGED <<mainVars, producer, m_streaming, streamThreads, m_currentFrame, frame,
                   p_held, p_released, wire, consVars, hist, lat>>

GF_Next == GF_StartFrame \/ GF_GetFrame

SpecGetFrame == GF_Init /\ [][GF_Next]_vars

\* C3: GetFrame returns the newest retained frame whose colour is within 8 units
\* per channel of the buffer's first pixel, and afterwards the retained list is
\* exactly the match and every newer frame (nothing older than the match is
\* left); with nothing matching it returns no frame and evicts nothing. With
\* frames 5 and 9 retained and frame 9's colour (8, 8, 152) in the buffer, frame
\* 9 is returned and frame 5 is gone.
Within8(number, pixel) ==
    \A ch \in 1..3 :
        /\ FrameColor(number)[ch] - pixel[ch] <= 8
        /\ pixel[ch] - FrameColor(number)[ch] <= 8
C3_GetFrameNewestMatch ==
    LET before == lastLookup.before
        after == lastLookup.after
        matching == {i \in 1..Len(before) : Within8(before[i], lastLookup.pixel)}
    IN  /\ matching = {} =>
            /\ lastLookup.result = NoFrame
            /\ after = before
        /\ matching # {} =>
            /\ lastLookup.result = before[MaxOf(matching)]
            /\ \A i \in 1..Len(before) :
                   (before[i] \in SeqToSet(after)) <=> (i >= MaxOf(matching))
            /\ Len(after) = Len(before) - MaxOf(matching) + 1
        /\ (lastLookup.pixel = <<8, 8, 152>> /\ 5 \in SeqToSet(before)
                /\ 9 \in SeqToSet(before)) =>
            /\ lastLookup.result = 9
            /\ 5 \notin SeqToSet(after)
            /\ 9 \in SeqToSet(after)
C3_Witness ==
    /\ lastLookup.pixel = <<8, 8, 152>>
    /\ 5 \in SeqToSet(lastLookup.before)
    /\ lastLookup.result = 9
    /\ 5 \notin SeqToSet(m_frames)
    /\ 9 \in SeqToSet(m_frames)

(***************************************************************************)
(* SpecProducer: one producer driven through its public operations by a    *)
(* client, with its stream thread and a consumer's lookups running beside. *)
(***************************************************************************)
PH_Init ==
    /\ MainIdle /\ pc = "client"
    /\ \E kind \in ProducerKinds :
           producer = [kind |-> kind, env |-> "unknown", state |-> "constructed"]
    /\ ProducerFresh
    /\ ConsumerIdle
    /\ hist = NoHist
    /\ lastLookup = NoLookup
    /\ lat = NoLat

PH_Initialize ==
    /\ pc = "client"
    /\ producer.state = "constructed"
    /\ \E env \in ProducerEnvs(producer.kind) :
           LET r == ProducerInitialize(producer.kind, env)
           IN  /\ producer' = [producer EXCEPT
                                   !.env = env,
                                   !.state = IF AsBool(r.ret) THEN "ok" ELSE "failed"]
               /\ p_held' = r.held
               /\ errors' = errors \cup r.errors
    /\ UNCHANGED <<mainRest, pc, m_streaming, streamThreads, frameVars, p_released, wire,
                   consVars, hist, lastLookup, lat>>

PH_StartStreaming ==
    /\ pc = "client"
    /\ producer.state = "ok"
    /\ ~m_streaming
    /\ StartStreaming(producer.kind)
    /\ hist' = [hist EXCEPT !.lastStream = "StartStreaming"]
    /\ UNCHANGED <<mainVars, producer, frameVars, p_held, p_released, wire, consVars,
                   lastLookup, lat>>

PH_StopStreaming ==
    /\ pc = "client"
    /\ m_streaming
    /\ StopStreaming(producer.kind, "stop_join", "client")
    /\ hist' = [hist EXCEPT !.lastStream = "StopStreaming", !.startedAtStop = m_currentFrame]
    /\ UNCHANGED <<mainRest, errors, producer, frameVars, p_held, p_released, wire,
                   consVars, lastLookup, lat>>

PH_StopJoin ==
    /\ pc = "stop_join"
    /\ Producer_Join("client")
    /\ hist' = [hist EXCEPT !.startedAtStop = m_currentFrame]
    /\ UNCHANGED <<mainRest, errors, producer, frameVars, p_held, p_released, wire,
                   consVars, lastLookup, lat>>

PH_Close ==
    /\ pc = "client"
    /\ Close(producer.kind, "close_join", "client")
    /\ producer' = [producer EXCEPT !.state = IF pc' = "client" THEN "closed" ELSE @]
    /\ hist' = IF pc' = "close_join"
               THEN [hist EXCEPT !.lastStream = "StopStreaming",
                                 !.startedAtStop = m_currentFrame]
               ELSE hist
    /\ UNCHANGED <<mainRest, errors, frameVars, wire, consVars, lastLookup, lat>>

PH_CloseJoin ==
    /\ pc = "close_join"
    /\ CloseAfterJoin("client")
    /\ producer' = [producer EXCEPT !.state = "closed"]
    /\ hist' = [hist EXCEPT !.startedAtStop = m_currentFrame]
    /\ UNCHANGED <<mainRest, errors, frameVars, wire, consVars, lastLookup, lat>>

\* A consumer resolves the frame whose colour is on the cable.
PH_GetFrame ==
    /\ wire # NoFrame
    /\ Lookup(FrameColor(wire))
    /\ UNCHANGED <<mainVars, producer, m_streaming, streamThreads, m_currentFrame, frame,
                   p_held, p_released, wire, consVars, hist, lat>>

PH_Next ==
    \/ PH_Initialize
    \/ PH_StartStreaming
    \/ PH_StopStreaming
    \/ PH_StopJoin
    \/ PH_Close
    \/ PH_CloseJoin
    \/ PH_GetFrame
    \/ StreamThread

SpecProducer == PH_Init /\ [][PH_Next]_vars

\* C8: the producer is streaming exactly from a StartStreaming until the next
\* StopStreaming: after StartStreaming IsStreaming is true and one stream thread
\* runs; after StopStreaming it is false, and once StopStreaming has returned
\* the thread has exited and been joined, so no frame is started any more;
\* there is never more than one stream thread.
C8_StreamingLifecycle ==
    /\ m_streaming <=> (hist.lastStream = "StartStreaming")
    /\ Len(streamThreads) <= 1
    /\ m_streaming => (Len(streamThreads) = 1 /\ streamThreads[1].pc # "exited")
    /\ (hist.lastStream = "StopStreaming" /\ pc \notin {"stop_join", "close_join"}) =>
           /\ streamThreads = <<>>
           /\ m_currentFrame = hist.startedAtStop
C8_Witness ==
    /\ hist.lastStream = "StopStreaming"
    /\ pc = "client"
    /\ producer.state = "ok"
    /\ streamThreads = <<>>
    /\ m_currentFrame = MaxFrames

\* C9: for each producer backend, once Close has returned the producer is not
\* streaming and has no stream thread, and no resource is ever released twice
\* however often Close is called.
C9_CloseStopsStreaming ==
    /\ (producer.state = "closed" /\ pc = "client") =>
           (~m_streaming /\ streamThreads = <<>>)
    /\ \A r \in DOMAIN p_released : p_released[r] <= 1

(***************************************************************************)
(* SpecLatency: PrintLatencyResults over a received-frame list. Each frame *)
(* of the list contributes its producer time, consumer time and wire time  *)
(* (microseconds between checkpoints, which follow each other in time);    *)
(* the final estimate is computed from the lists' statistics.              *)
(***************************************************************************)
MaxLatFrames == 2      \* longest received-frame list summarised

\* TestFormat::frameRate of the format named on the command line.
FrameRate(format) == IF format \in {"uhd-24", "4k-24"} THEN 24 ELSE 60

MICROSECONDS_PER_SECOND == 1000000

\* The interval rounded to the nearest microsecond instead of truncated.
FrameIntervalRounded(format) ==
    (MICROSECONDS_PER_SECOND + FrameRate(format) \div 2) \div FrameRate(format)

FrameInterval(format) == MICROSECONDS_PER_SECOND \div FrameRate(format)

RECURSIVE Total(_)
Total(values) == IF values = <<>> THEN 0 ELSE values[1] + Total(Tail(values))

DurationList_Min(values) == CHOOSE v \in SeqToSet(values) : \A w \in SeqToSet(values) : v <= w
DurationList_Max(values) == CHOOSE v \in SeqToSet(values) : \A w \in SeqToSet(values) : v >= w

\* Avg adds the samples' counts into an unsigned total (uint64_t), divides it by
\* the list's size and converts the quotient to Microseconds (signed). Word is
\* the number of values of the total, 2^30 here where the code has 2^64.
WordBits == 30
Word == 2 ^ WordBits
ToUnsigned(x) == x % Word
ToSigned(u) == IF u >= Word \div 2 THEN u - Word ELSE u

DurationList_Avg(values) ==
    IF Len(values) = 0 THEN 0
    ELSE ToSigned(ToUnsigned(Total(values)) \div Len(values))

Statistics(values) ==
    [avg |-> DurationList_Avg(values),
     min |-> DurationList_Min(values),
     max |-> DurationList_Max(values)]

\* The estimate with the frame interval not added before the division.
FinalFramesTruncated(appTime, wireTime, frameInterval, producerType) ==
    appTime \div frameInterval
    + (IF producerType = "PRODUCER_GSTREAMER" THEN wireTime \div frameInterval ELSE 1)

\* avgFrames / minFrames / maxFrames of PrintLatencyResults.
FinalFrames(appTime, wireTime, frameInterval, producerType) ==
    LET frames == (appTime + frameInterval) \div frameInterval
    IN  IF producerType = "PRODUCER_GSTREAMER"
        THEN frames + (wireTime + frameInterval) \div frameInterval
        ELSE frames + 1

\* Durations a frame's checkpoints may lie apart, around the frame interval.
Durations(format) == {0, FrameInterval(format) - 1, FrameInterval(format)}
WireDurations(format) == Durations(format) \cup {FrameInterval(format) + 1}

\* A frame's <<consumer time, producer time>>: the durations above, or the
\* times of a frame of the README's example output (3608 us together).
ExampleTimes == <<1568, 2040>>
FrameTimes(format) == (Durations(format) \X Durations(format)) \cup {ExampleTimes}

L_Init ==
    /\ build = [aja |-> TRUE, deepstream |-> TRUE]
    /\ argv = <<>>
    /\ \E p \in {"PRODUCER_GL", "PRODUCER_AJA", "PRODUCER_GSTREAMER"},
          f \in {"1080", "uhd-24"} :
           opts = [ProgramOptions EXCEPT !.producerType = p, !.format = f]
    /\ exitCode = 0 /\ errors = {} /\ calls = <<>> /\ outputFile = "closed"
    /\ pc = "results"
    /\ producer = NoProducer
    /\ ProducerFresh
    /\ ConsumerIdle
    /\ hist = NoHist
    /\ lastLookup = NoLookup
    /\ lat = [state |-> "loop", estimatedAppTimes |-> <<>>, wireTimes |-> <<>>,
              frameInterval |-> 0, frames |-> <<>>, microseconds |-> <<>>]

latRest == <<mainVars, prodVars, consVars, hist, lastLookup>>

\* frames.size() == 0: nothing is printed.
L_NoFrames ==
    /\ lat.state = "loop"
    /\ lat.estimatedAppTimes = <<>>
    /\ lat' = [lat EXCEPT !.state = "returned"]
    /\ UNCHANGED latRest

\* One iteration of the loop over the frames: the frame's durations are
\* appended to the lists.
L_Accumulate ==
    /\ lat.state = "loop"
    /\ Len(lat.estimatedAppTimes) < MaxLatFrames
    /\ \E times \in FrameTimes(opts.format), wireTime \in WireDurations(opts.format) :
           LET consumerTime == times[1]
               producerTime == times[2]
           IN  lat' = [lat EXCEPT
                           !.estimatedAppTimes = Append(@, consumerTime + producerTime),
                           !.wireTimes = Append(@, wireTime)]
    /\ UNCHANGED latRest

\* The summaries and the final estimated latencies, in frames and microseconds.
L_Summarize ==
    /\ lat.state = "loop"
    /\ lat.estimatedAppTimes # <<>>
    /\ LET frameInterval == FrameInterval(opts.format)
           app == Statistics(lat.estimatedAppTimes)
           wireStats == Statistics(lat.wireTimes)
           frames == [k \in {"avg", "min", "max"} |->
                         FinalFrames(app[k], wireStats[k], frameInterval,
                                     opts.producerType)]
       IN  lat' = [lat EXCEPT !.state = "printed",
                              !.frameInterval = frameInterval,
                              !.frames = frames,
                              !.microseconds = [k \in {"avg", "min", "max"} |->
                                                    frames[k] * frameInterval]]
    /\ UNCHANGED latRest

L_Next == L_NoFrames \/ L_Accumulate \/ L_Summarize

SpecLatency == L_Init /\ [][L_Next]_vars

\* The vsync count n that follows time t: n intervals end after t, by at most one
\* interval.
NextVsync(n, t, interval) == n * interval > t /\ n * interval - t <= interval

\* C10: for each of avg, min and max the printed final latency in frames is
\* the number of the vsync after the estimated-application-time statistic,
\* (statistic + interval) div interval, plus 1 for the gl and aja producers or
\* plus the same rounding of the wire-time statistic for the gst producer; the
\* printed microseconds are the frames times the frame interval.
C10_FinalLatency ==
    lat.state = "printed" =>
        \A k \in {"avg", "min", "max"} :
            LET app == Statistics(lat.estimatedAppTimes)[k]
                wireStat == Statistics(lat.wireTimes)[k]
                interval == FrameInterval(opts.format)
            IN  /\ \E n \in 1..(Len(lat.estimatedAppTimes) + 3) :
                       /\ NextVsync(n, app, interval)
                       /\ n = (app + interval) \div interval
                       /\ lat.frames[k] = n +
                              (IF opts.producerType = "PRODUCER_GSTREAMER"
                               THEN (wireStat + interval) \div interval
                               ELSE 1)
                /\ lat.microseconds[k] = lat.frames[k] * interval
C10_Witness ==
    /\ lat.state = "printed"
    /\ opts.producerType = "PRODUCER_GSTREAMER"
    /\ lat.frameInterval = 41666
    /\ lat.estimatedAppTimes = <<41666, 83332>>
    /\ lat.wireTimes = <<41667, 0>>
    /\ lat.frames = [avg |-> 3, min |-> 3, max |-> 5]

\* C11 (as the code has it): for a 60 Hz format the frame interval is
\* 1000000 div 60 = 16666 microseconds; with an estimated-application-time
\* average of 3608 microseconds, avgFrames is (3608 + 16666) div 16666 = 1,
\* plus 1 for a gl or aja producer gives 2 frames, printed as 33332
\* microseconds.
C11_Case ==
    /\ lat.state = "printed"
    /\ FrameRate(opts.format) = 60
    /\ opts.producerType # "PRODUCER_GSTREAMER"
    /\ DurationList_Avg(lat.estimatedAppTimes) = 3608
C11_ExampleLatency ==
    C11_Case =>
        /\ lat.frameInterval = 16666
        /\ (3608 + lat.frameInterval) \div lat.frameInterval = 1
        /\ lat.frames["avg"] = 2
        /\ lat.microseconds["avg"] = 33332
C11_Witness ==
    /\ C11_Case
    /\ opts.producerType = "PRODUCER_GL"
    /\ lat.estimatedAppTimes = <<3608>>
    /\ lat.microseconds["avg"] = 33332
\* C11 as stated: the frame interval is 16667 microseconds and the two frames
\* are reported as 33334 microseconds.
C11_AsStated ==
    C11_Case =>
        /\ lat.frameInterval = 16667
        /\ lat.frames["avg"] = 2
        /\ lat.microseconds["avg"] = 33334

(***************************************************************************)
(* SpecDurationList: one DurationList, appended to and summarised.         *)
(***************************************************************************)
MaxSamples == 3      \* longest list of samples

\* Samples in microseconds; a sample is negative when its second time point
\* lies before its first.
Samples == {-20, -1, 0, 10, 20, 30}

DL_Init ==
    /\ MainIdle /\ pc = "durations"
    /\ producer = NoProducer
    /\ ProducerFresh
    /\ ConsumerIdle
    /\ hist = NoHist
    /\ lastLookup = NoLookup
    /\ lat = [state |-> "list", m_values |-> <<>>, summary |-> <<>>]

\* DurationList::Append(const Microseconds&)
DL_Append ==
    /\ Len(lat.m_values) < MaxSamples
    /\ \E d \in Samples :
           lat' = [lat EXCEPT !.m_values = Append(@, d), !.summary = <<>>]
    /\ UNCHANGED latRest

\* DurationList::Avg() of any list.
DL_Avg ==
    /\ lat' = [lat EXCEPT !.summary = [avg |-> DurationList_Avg(lat.m_values)]]
    /\ UNCHANGED latRest

\* DurationList::Summary() of a list that holds samples: Avg, Min and Max.
DL_Summary ==
    /\ lat.m_values # <<>>
    /\ lat' = [lat EXCEPT !.summary = Statistics(lat.m_values)]
    /\ UNCHANGED latRest

DL_Next == DL_Append \/ DL_Avg \/ DL_Summary

SpecDurationList == DL_Init /\ [][DL_Next]_vars

\* The mean of the samples with the fraction cut off.
TruncatedMean(values) ==
    LET sum == Total(values)
        n == Len(values)
    IN  IF n = 0 THEN 0
        ELSE IF sum >= 0 THEN sum \div n ELSE -((-sum) \div n)

\* C14: for any sequence of appended samples Avg is the truncating integer
\* mean of all samples (0 for the empty list), Min and Max are the smallest
\* and the largest sample, and Min <= Avg <= Max for a list that is not empty.
C14_Statistics ==
    lat.summary # <<>> =>
        /\ lat.summary.avg = TruncatedMean(lat.m_values)
        /\ "min" \in DOMAIN lat.summary =>
               /\ lat.summary.min \in SeqToSet(lat.m_values)
               /\ lat.summary.max \in SeqToSet(lat.m_values)
               /\ \A v \in SeqToSet(lat.m_values) :
                      lat.summary.min <= v /\ v <= lat.summary.max
               /\ lat.summary.min <= lat.summary.avg
               /\ lat.summary.avg <= lat.summary.max

\* The claim's example: 10, 20 and 30 microseconds give min 10, max 30, avg 20.
C14_ExampleSummarised ==
    /\ lat.m_values = <<10, 20, 30>>
    /\ lat.summary = [avg |-> 20, min |-> 10, max |-> 30]

(***************************************************************************)
(* SpecReport: PrintLatencyResults and WriteLatencyResults over the list   *)
(* of frames a consumer received. A Frame carries its nine checkpoints as  *)
(* time points in nanoseconds; a duration list sample is the difference of *)
(* two time points cast to whole microseconds.                             *)
(***************************************************************************)
MaxReportFrames == 4      \* longest received-frame list reported

NANOSECONDS_PER_MICROSECOND == 1000

\* std::chrono::duration_cast<Microseconds> of a nanosecond count.
ToMicroseconds(ns) ==
    IF ns >= 0 THEN ns \div NANOSECONDS_PER_MICROSECOND
    ELSE -((-ns) \div NANOSECONDS_PER_MICROSECOND)

\* The checkpoints of a Frame, in the order the pipeline records them.
Checkpoints ==
    <<"m_processingStart", "m_renderStart", "m_renderEnd", "m_copiedFromGPU",
      "m_writeEnd", "m_scanoutStart", "m_frameReceived", "m_readEnd", "m_copiedToGPU">>

\* A received frame: its number, its duplicate receives, and its checkpoints,
\* the first at start and each later one stages[i] nanoseconds after the one
\* before it.
RECURSIVE TimeAt(_, _, _)
TimeAt(start, stages, i) == IF i = 1 THEN start ELSE TimeAt(start, stages, i - 1) + stages[i - 1]

ReceivedFrame(number, duplicates, start, stages) ==
    [c \in SeqToSet(Checkpoints) |->
         TimeAt(start, stages, CHOOSE i \in 1..9 : Checkpoints[i] = c)]
    @@ [m_number |-> number, m_duplicateReceives |-> duplicates]

\* DurationList::Append(a, b): the sample of the time points a and b.
Sample(a, b) == ToMicroseconds(b - a)

\* The estimated application time taken from the whole span's length.
EstimatedAppTimeOfSpan(f) ==
    ToMicroseconds((f.m_copiedToGPU - f.m_frameReceived) + (f.m_writeEnd - f.m_processingStart))

\* consumerTime + producerTime of one frame.
EstimatedAppTime(f) ==
    LET consumerTime == ToMicroseconds(f.m_copiedToGPU - f.m_frameReceived)
        producerTime == ToMicroseconds(f.m_writeEnd - f.m_processingStart)
    IN  consumerTime + producerTime

\* The frames skipped, counted from the frame before instead of the expected one.
SkippedSincePrevious(number, expectedFrame) == number - expectedFrame + 1

\* f->Number() - expectedFrame
Skipped(number, expectedFrame) == number - expectedFrame

NoLists ==
    [expectedFrame |-> 0, skippedFrames |-> 0, duplicateReceives |-> 0,
     processingTimes |-> <<>>, renderTimes |-> <<>>, fromGpuTimes |-> <<>>,
     writeTimes |-> <<>>, vsyncTimes |-> <<>>, wireTimes |-> <<>>, readTimes |-> <<>>,
     toGpuTimes |-> <<>>, producerTimes |-> <<>>, consumerTimes |-> <<>>,
     totalTimes |-> <<>>, estimatedAppTimes |-> <<>>]

\* One iteration of PrintLatencyResults' loop over the frames.
AccumulateFrame(a, f) ==
    [expectedFrame |-> f.m_number + 1,
     skippedFrames |-> a.skippedFrames + Skipped(f.m_number, a.expectedFrame),
     duplicateReceives |-> a.duplicateReceives + f.m_duplicateReceives,
     processingTimes |-> Append(a.processingTimes, Sample(f.m_processingStart, f.m_renderStart)),
     renderTimes |-> Append(a.renderTimes, Sample(f.m_renderStart, f.m_renderEnd)),
     fromGpuTimes |-> Append(a.fromGpuTimes, Sample(f.m_renderEnd, f.m_copiedFromGPU)),
     writeTimes |-> Append(a.writeTimes, Sample(f.m_copiedFromGPU, f.m_writeEnd)),
     vsyncTimes |-> Append(a.vsyncTimes, Sample(f.m_writeEnd, f.m_scanoutStart)),
     wireTimes |-> Append(a.wireTimes, Sample(f.m_scanoutStart, f.m_frameReceived)),
     readTimes |-> Append(a.readTimes, Sample(f.m_frameReceived, f.m_readEnd)),
     toGpuTimes |-> Append(a.toGpuTimes, Sample(f.m_readEnd, f.m_copiedToGPU)),
     producerTimes |-> Append(a.producerTimes, Sample(f.m_processingStart, f.m_writeEnd)),
     consumerTimes |-> Append(a.consumerTimes, Sample(f.m_frameReceived, f.m_copiedToGPU)),
     totalTimes |-> Append(a.totalTimes, Sample(f.m_processingStart, f.m_copiedToGPU)),
     estimatedAppTimes |-> Append(a.estimatedAppTimes, EstimatedAppTime(f))]

RECURSIVE AccumulateFrames(_, _)
AccumulateFrames(a, fs) ==
    IF fs = <<>> THEN a ELSE AccumulateFrames(AccumulateFrame(a, Head(fs)), Tail(fs))

\* The Frame objects of the received list, in its order.
ReceivedFrames == [i \in 1..Len(c_frames) |-> frame[c_frames[i]]]

FirstNumbers == {0, 7}                    \* number of the first frame received
FirstStart == 5000300                     \* its processing start, ns since the epoch
StartStep == 16666700                     \* ns between the starts of consecutive frame numbers
StagePatterns ==
    {<<1500, 2500, 999, 1000, 12000, 16001, 1400, 601>>,
     <<0, 1000, 1001, 1999, 500, 33000, 999, 1>>}

R_Init ==
    /\ build = [aja |-> TRUE, deepstream |-> TRUE]
    /\ argv = <<>>
    /\ opts = ProgramOptions
    /\ exitCode = 0 /\ errors = {} /\ calls = <<>>
    /\ outputFile \in {"closed", "open"}
    /\ pc = "report"
    /\ producer = NoProducer
    /\ ProducerFresh
    /\ ConsumerIdle
    /\ hist = NoHist
    /\ lastLookup = NoLookup
    /\ lat = [state |-> "received"]

reportRest ==
    <<build, argv, opts, pc, exitCode, errors, calls, producer, m_streaming, streamThreads,
      m_currentFrame, m_frames, p_held, p_released, wire, consumer, c_held, cap, gstc,
      hist, lastLookup>>

\* The consumer's received list as CaptureFrames leaves it: one entry per
\* frame number, numbers increasing, a frame seen again counted on its entry.
R_Receive ==
    /\ pc = "report" /\ lat.state = "received"
    /\ Len(c_frames) < MaxReportFrames
    /\ \E gap \in {1, 2}, first \in FirstNumbers, duplicates \in {0, 1},
          stages \in StagePatterns :
          LET number == IF c_frames = <<>> THEN first ELSE Last(c_frames) + gap
              start == IF c_frames = <<>> THEN FirstStart
                       ELSE frame[Last(c_frames)].m_processingStart + gap * StartStep
          IN  /\ c_frames' = Append(c_frames, number)
              /\ frame' = (number :> ReceivedFrame(number, duplicates, start, stages)) @@ frame
    /\ UNCHANGED <<reportRest, outputFile, lat>>

\* PrintLatencyResults(opts, frames)
R_Print ==
    /\ pc = "report" /\ lat.state = "received"
    /\ IF Len(c_frames) = 0
       THEN lat' = [state |-> "printed", printed |-> FALSE]
       ELSE LET frames == ReceivedFrames
                a == AccumulateFrames([NoLists EXCEPT !.expectedFrame = frames[1].m_number],
                                      frames)
                warn == a.skippedFrames # 0 \/ a.duplicateReceives # 0
                frameInterval == FrameInterval(opts.format)
                app == Statistics(a.estimatedAppTimes)
                wireStats == Statistics(a.wireTimes)
            IN  lat' = [state |-> "printed", printed |-> TRUE, lists |-> a,
                        warnings |-> IF warn
                                     THEN {"Frames were skipped or repeated!",
                                           "Frames were skipped or repeated. These times only"}
                                     ELSE {},
                        finalFrames |-> [k \in {"avg", "min", "max"} |->
                                            FinalFrames(app[k], wireStats[k], frameInterval,
                                                        opts.producerType)],
                        finalColor |-> IF warn THEN "Yellow" ELSE "Green",
                        vsyncWarning |-> 2 * DurationList_Avg(a.vsyncTimes) > 3 * frameInterval]
    /\ UNCHANGED <<reportRest, outputFile, c_frames, frame>>

\* One row of the file, from the frame before it.
CsvRowOfNumber(f, firstFrame, previousStartTime) ==
    [Frame |-> f.m_number,
     Count |-> f.m_duplicateReceives + 1,
     FrameStartTimestamp |-> ToMicroseconds(f.m_processingStart),
     FrameInterval |-> ToMicroseconds(f.m_processingStart - previousStartTime),
     Process |-> Sample(f.m_processingStart, f.m_renderStart),
     Render |-> Sample(f.m_renderStart, f.m_renderEnd),
     CopyToSYS |-> Sample(f.m_renderEnd, f.m_copiedFromGPU),
     WriteToHW |-> Sample(f.m_copiedFromGPU, f.m_writeEnd),
     VSync |-> Sample(f.m_writeEnd, f.m_scanoutStart),
     Wire |-> Sample(f.m_scanoutStart, f.m_frameReceived),
     ReadFromHW |-> Sample(f.m_frameReceived, f.m_readEnd),
     CopyToGPU |-> Sample(f.m_readEnd, f.m_copiedToGPU)]

\* One iteration of WriteLatencyResults' loop: the row of frame f.
CsvRow(f, firstFrame, previousStartTime) ==
    [Frame |-> f.m_number - firstFrame,
     Count |-> f.m_duplicateReceives + 1,
     FrameStartTimestamp |-> ToMicroseconds(f.m_processingStart),
     FrameInterval |-> ToMicroseconds(f.m_processingStart - previousStartTime),
     Process |-> Sample(f.m_processingStart, f.m_renderStart),
     Render |-> Sample(f.m_renderStart, f.m_renderEnd),
     CopyToSYS |-> Sample(f.m_renderEnd, f.m_copiedFromGPU),
     WriteToHW |-> Sample(f.m_copiedFromGPU, f.m_writeEnd),
     VSync |-> Sample(f.m_writeEnd, f.m_scanoutStart),
     Wire |-> Sample(f.m_scanoutStart, f.m_frameReceived),
     ReadFromHW |-> Sample(f.m_frameReceived, f.m_readEnd),
     CopyToGPU |-> Sample(f.m_readEnd, f.m_copiedToGPU)]

CsvRows(frames) ==
    [i \in 1..Len(frames) |->
        CsvRow(frames[i], frames[1].m_number,
               IF i = 1 THEN frames[1].m_processingStart
               ELSE frames[i - 1].m_processingStart)]

\* WriteLatencyResults(outputFile, frames)
R_Write ==
    /\ pc = "report" /\ lat.state = "printed"
    /\ IF outputFile # "open" \/ Len(c_frames) = 0
       THEN /\ lat' = [lat EXCEPT !.state = "done"] @@ [csv |-> <<>>]
            /\ UNCHANGED outputFile
       ELSE /\ lat' = [lat EXCEPT !.state = "done"] @@ [csv |-> CsvRows(ReceivedFrames)]
            /\ outputFile' = "written"
    /\ UNCHANGED <<reportRest, c_frames, frame>>

R_Next == R_Receive \/ R_Print \/ R_Write

SpecReport == R_Init /\ [][R_Next]_vars

\* The frames missing between consecutive entries of a received list.
RECURSIVE MissingBetween(_)
MissingBetween(numbers) ==
    IF Len(numbers) < 2 THEN 0
    ELSE (numbers[2] - numbers[1] - 1) + MissingBetween(Tail(numbers))

\* C12: the skipped count is the sum over consecutive received entries of
\* (number - previous number - 1), the repeated count is the sum of the
\* entries' duplicate counters, and the skipped-or-repeated warning is
\* produced, and the final latency printed in yellow, exactly when one of
\* the two counts is not zero.
C12_SkippedRepeated ==
    (lat.state \in {"printed", "done"} /\ c_frames # <<>>) =>
        /\ lat.lists.skippedFrames = MissingBetween(c_frames)
        /\ lat.lists.duplicateReceives = SumDuplicates(c_frames)
        /\ ("Frames were skipped or repeated!" \in lat.warnings)
               <=> (MissingBetween(c_frames) # 0 \/ SumDuplicates(c_frames) # 0)
        /\ (lat.finalColor = "Yellow")
               <=> (MissingBetween(c_frames) # 0 \/ SumDuplicates(c_frames) # 0)
        /\ (c_frames = <<0, 1, 3, 4>> => lat.lists.skippedFrames = 1)

C12_Witness ==
    /\ lat.state = "printed"
    /\ c_frames = <<0, 1, 3, 4>>
    /\ lat.lists.skippedFrames = 1
    /\ lat.lists.duplicateReceives = 0
    /\ lat.finalColor = "Yellow"

\* The lists of the eight pipeline stages, in pipeline order.
StageLists ==
    <<"processingTimes", "renderTimes", "fromGpuTimes", "writeTimes",
      "vsyncTimes", "wireTimes", "readTimes", "toGpuTimes">>
AllLists ==
    SeqToSet(StageLists) \cup {"producerTimes", "consumerTimes", "totalTimes", "estimatedAppTimes"}

\* C13: the results loop appends exactly one sample per received frame to
\* each of the twelve duration lists; the eight stage samples of a frame are
\* the differences of its consecutive checkpoints in pipeline order, in whole
\* microseconds; its estimated-application-time sample is its producer-total
\* sample plus its consumer-total sample.
C13_OneSamplePerFrame ==
    (lat.state \in {"printed", "done"} /\ c_frames # <<>>) =>
        /\ Cardinality(AllLists) = 12
        /\ \A l \in AllLists : Len(lat.lists[l]) = Len(c_frames)
        /\ \A i \in 1..Len(c_frames) :
              LET f == frame[c_frames[i]]
              IN  /\ \A k \in 1..8 :
                        lat.lists[StageLists[k]][i]
                            = (f[Checkpoints[k + 1]] - f[Checkpoints[k]]) \div 1000
                  /\ lat.lists.producerTimes[i]
                        = (f.m_writeEnd - f.m_processingStart) \div 1000
                  /\ lat.lists.consumerTimes[i]
                        = (f.m_copiedToGPU - f.m_frameReceived) \div 1000
                  /\ lat.lists.estimatedAppTimes[i]
                        = lat.lists.producerTimes[i] + lat.lists.consumerTimes[i]

\* Two frames reported, the second with a producer total of 5 us (5999 ns) and
\* a consumer total of 2 us (2001 ns): its estimate is 7 us, not the 8 us of
\* the 8000 ns the two spans last together.
C13_Witness ==
    /\ lat.state = "printed"
    /\ Len(c_frames) = 2
    /\ lat.lists.producerTimes[2] = 5 /\ lat.lists.consumerTimes[2] = 2
    /\ lat.lists.estimatedAppTimes = <<5, 7>>
    /\ lat.lists.vsyncTimes = <<0, 12>>

StageColumns ==
    <<"Process", "Render", "CopyToSYS", "WriteToHW", "VSync", "Wire", "ReadFromHW", "CopyToGPU">>

\* C15: the file holds one row per received frame, in received order; Frame
\* is the frame's number minus the first received number, Count its
\* duplicate receives plus one, Frame Interval its processing start minus
\* the previous row's (0 in the first row), and the eight stage columns are,
\* frame by frame, the samples of the eight per-stage duration lists.
C15_CsvRows ==
    (lat.state = "done" /\ outputFile = "written") =>
        /\ Len(lat.csv) = Len(c_frames)
        /\ \A i \in 1..Len(c_frames) :
              LET f == frame[c_frames[i]]
                  row == lat.csv[i]
              IN  /\ row.Frame = c_frames[i] - c_frames[1]
                  /\ row.Count = f.m_duplicateReceives + 1
                  /\ row.FrameInterval =
                        IF i = 1 THEN 0
                        ELSE (f.m_processingStart - frame[c_frames[i - 1]].m_processingStart)
                                 \div 1000
                  /\ \A k \in 1..8 : row[StageColumns[k]] = lat.lists[StageLists[k]][i]

\* Three frames starting at number 7, one of them skipped and one received
\* twice, written as rows 0, 1 and 3.
C15_Witness ==
    /\ lat.state = "done" /\ outputFile = "written"
    /\ c_frames = <<7, 8, 10>>
    /\ <<lat.csv[1].Frame, lat.csv[2].Frame, lat.csv[3].Frame>> = <<0, 1, 3>>
    /\ <<lat.csv[1].Count, lat.csv[2].Count, lat.csv[3].Count>> = <<1, 2, 1>>
    /\ <<lat.csv[1].FrameInterval, lat.csv[2].FrameInterval, lat.csv[3].FrameInterval>>
           = <<0, 16666, 33333>>

(***************************************************************************)
(* The output file, the argument parser's usage errors and the two         *)
(* consumer-less modes, under Spec.                                        *)
(***************************************************************************)
\* C16 (as stated): a run that exits with a failure has not created,
\* truncated or written the file named by -o.
C16_FileUntouchedOnFailure ==
    (pc = "exited" /\ exitCode = 1) => outputFile = "closed"

\* A run given -o whose producer fails to initialize: it exits 1 and leaves
\* the file created (or truncated) and empty.
C16_Witness ==
    /\ pc = "exited" /\ exitCode = 1
    /\ opts.outputFilename = "out.csv"
    /\ "main: initialize producer" \in errors
    /\ outputFile = "empty"

\* What the code does keep: no failing run streams a header or row to the file.
C16_NoRowsOnFailure ==
    (pc = "exited" /\ exitCode = 1) => outputFile \in {"closed", "empty"}

\* The flag that ends the argument list is read as a flag: the arguments
\* before it are a command line the parser accepts in full.
EndsInFlag ==
    /\ argv # <<>>
    /\ Last(argv) \in ValueFlags
    /\ ParseArguments(SubSeq(argv, 1, Len(argv) - 1)).exit = "no"

\* C17: an argument list whose last argument is one of the value-taking
\* flags, read as a flag, ends in a usage error with exit status 1 before
\* any producer or consumer is constructed.
C17_MissingValue ==
    (EndsInFlag /\ pc # "start") =>
        /\ pc = "exited" /\ exitCode = 1
        /\ \E f \in ValueFlags : errors = {"usage: missing value for " \o f}
        /\ producer = NoProducer /\ consumer = NoConsumer
        /\ calls = <<>>
        /\ outputFile = "closed"

C17_Witness ==
    /\ argv = <<"-p", "gl", "-c", "none", "-c.rdma">>
    /\ pc = "exited" /\ exitCode = 1
    /\ errors = {"usage: missing value for -c.rdma"}
    /\ producer = NoProducer

\* Every one of the flags was tried, alone and after a complete command line.
C17_AllFlagsTried ==
    \A f \in ValueFlags : {<<f>>, <<"-p", "gl", "-c", "none", f>>} \subseteq ArgLists

\* The configuration of the stand-alone simulated workload.
C18_Case ==
    /\ opts.simulatedProcessing > 0
    /\ opts.producerType = "PRODUCER_UNKNOWN"
    /\ opts.consumerType = "CONSUMER_UNKNOWN"

C19_NoneRunsSimulation ==
    (argv = <<"-c", "none", "-s", "5">> /\ pc = "exited") =>
        /\ exitCode = 0
        /\ lat.state = "simulated"
        /\ lat.loops = 5 /\ lat.runs > 0 /\ lat.summary

\* What that command line does: a usage error for the missing producer, and
\* no run of the workload.
C19_Witness ==
    /\ argv = <<"-c", "none", "-s", "5">>
    /\ pc = "exited" /\ exitCode = 1
    /\ opts.consumerType = "CONSUMER_NONE" /\ opts.simulatedProcessing = 5
    /\ errors = {"usage: missing producer"}
    /\ lat = NoLat

\* The operations main called, in order, without the destructors' calls.
RECURSIVE MainCalls(_)
MainCalls(cs) ==
    IF cs = <<>> THEN <<>>
    ELSE IF Head(cs).by = "main" THEN <<Head(cs).op>> \o MainCalls(Tail(cs))
    ELSE MainCalls(Tail(cs))

\* A producer kind selected and the consumer given as none.
C20_Case ==
    /\ pc \notin {"start", "parsed"}
    /\ opts.producerType # "PRODUCER_UNKNOWN"
    /\ opts.consumerType = "CONSUMER_NONE"

\* C20: with a producer selected and no consumer (-c none), main initializes
\* and starts the producer, sleeps for the -p.time seconds (10 by default)
\* while the producer streams, then stops and closes the producer and exits
\* 0; no consumer is constructed or driven.
C20_ProducerOnly ==
    C20_Case =>
        /\ consumer = NoConsumer
        /\ c_frames = <<>>
        /\ \A i \in DOMAIN calls :
               calls[i].op \in {"p.Initialize", "p.StartStreaming", "sleep",
                                "p.StopStreaming", "p.Close"}
        /\ pc = "sleep" =>
               /\ m_streaming
               /\ streamThreads # <<>> /\ Last(streamThreads).pc # "exited"
        /\ \A i \in DOMAIN calls :
               calls[i].op = "sleep" =>
                   calls[i].seconds = IF \E k \in DOMAIN argv : argv[k] = "-p.time"
                                      THEN 5 ELSE 10
        /\ (pc = "exited" /\ RanOk("p.Initialize") /\ RanOk("p.StartStreaming")) =>
               /\ MainCalls(calls) = <<"p.Initialize", "p.StartStreaming", "sleep",
                                       "p.StopStreaming", "p.Close">>
               /\ exitCode = 0
               /\ ~m_streaming

C20_Witness ==
    /\ argv = <<"-p", "gl", "-c", "none", "-p.time", "5">>
    /\ pc = "exited" /\ exitCode = 0
    /\ MainCalls(calls) = <<"p.Initialize", "p.StartStreaming", "sleep",
                            "p.StopStreaming", "p.Close">>
    /\ calls[3].seconds = 5
    /\ m_currentFrame > 0
    /\ consumer = NoConsumer

(***************************************************************************)
(* The GStreamer producer's RDMA request in a build without DeepStream.    *)
(***************************************************************************)
\* The gst producer constructed with RDMA requested, in a build without
\* DeepStream support.
C21_Case ==
    /\ producer.kind = "gst"
    /\ ~build.deepstream
    /\ opts.producerRDMA

\* C21: in a build without DeepStream support GStreamerProducer::Initialize
\* fails whenever RDMA is requested, which it is unless -p.rdma 0 is given;
\* the run exits 1 and the stream thread is never started.
C21_RdmaNeedsDeepStream ==
    /\ (pc \notin {"start"} /\ ~(\E k \in DOMAIN argv : argv[k] = "-p.rdma")
           /\ ParseArguments(argv).exit = "no") => opts.producerRDMA
    /\ C21_Case =>
          /\ ~RanOk("p.Initialize")
          /\ ~m_streaming /\ streamThreads = <<>> /\ m_currentFrame = 0
          /\ \A i \in DOMAIN calls : calls[i].op # "p.StartStreaming"
          /\ pc = "exited" => (exitCode = 1 /\ "main: initialize producer" \in errors)

\* The default command line for the gst producer, in a build without
\* DeepStream where every element can be created: the RDMA check fails it.
C21_Witness ==
    /\ argv = <<"-p", "gst", "-c", "gst", "-n", "1", "-w", "0">>
    /\ ~build.deepstream
    /\ producer.env = "ok"
    /\ pc = "exited" /\ exitCode = 1
    /\ "producer: RDMA requires DeepStream" \in errors
    /\ streamThreads = <<>>

(***************************************************************************)
(* The stream thread after StopStreaming has cleared the flag.             *)
(***************************************************************************)
\* The calls of the loop body return and a joinable thread is joined: the
\* stream thread and the join take their steps.
SpecProducerFair ==
    /\ SpecProducer
    /\ WF_vars(StreamThread)
    /\ WF_vars(PH_StopJoin)
    /\ WF_vars(PH_CloseJoin)

\* StopStreaming has cleared the flag and has not returned.
Stopping == pc \in {"stop_join", "close_join"}

\* C22: once StopStreaming has cleared the flag the stream thread of every
\* backend starts at most one further frame before it exits, and
\* StopStreaming eventually returns when the calls of the loop body return.
C22_StopsWithinOneFrame ==
    /\ [](Stopping =>
             /\ ~m_streaming
             /\ Len(streamThreads) = 1
             /\ m_currentFrame - hist.startedAtStop <= 1
             /\ (m_currentFrame - hist.startedAtStop = 1) =>
                    streamThreads[1].pc \notin {"body"})
    /\ (Stopping ~> (pc = "client" /\ streamThreads = <<>>))

\* The flag was cleared between the thread's test and its StartFrame: one
\* frame was started after it, and the thread has left its loop.
C22_Witness ==
    /\ pc = "stop_join"
    /\ m_currentFrame = hist.startedAtStop + 1
    /\ streamThreads[1].pc = "exited"

(***************************************************************************)
(* The received list of a CaptureFrames call, under SpecCapture.           *)
(***************************************************************************)
\* The frames received, each counted with its duplicate receives.
Receives == Len(c_frames) + SumDuplicates(c_frames)

\* C23: every measured capture that resolves a frame either appends one
\* frame to the received list or increments one duplicate counter, and at a
\* successful return of CaptureFrames, in each backend, the frames of the
\* list plus their duplicate receives are numFrames.
C23_ReceivesAreNumFrames ==
    /\ [](cap.result = "true" => Receives = cap.numFrames)
    /\ [][/\ Receives' \in {Receives, Receives + 1}
          /\ (Receives' = Receives + 1) <=> (Len(hist.resolved') = Len(hist.resolved) + 1)
          /\ (Receives' = Receives + 1) =>
                 \/ /\ Len(c_frames') = Len(c_frames) + 1
                    /\ SumDuplicates(c_frames)' = SumDuplicates(c_frames)
                 \/ /\ c_frames' = c_frames
                    /\ SumDuplicates(c_frames)' = SumDuplicates(c_frames) + 1]_vars

\* Three measured captures of the AJA consumer: two frames, one received twice.
C23_Witness ==
    /\ consumer.kind = "aja"
    /\ cap.result = "true"
    /\ cap.numFrames = 3
    /\ Len(c_frames) = 2
    /\ SumDuplicates(c_frames) = 1

(***************************************************************************)
(* SpecReceive: a consumer's measured captures against the frames of a     *)
(* producer, the captured pixel being the colour of any frame started so   *)
(* far (the one on the cable, an older one read late, one not yet output)  *)
(* or of no frame.                                                         *)
(***************************************************************************)
MaxReceiveStarted == 5     \* frames the producer may start
MaxCaptures == 5           \* measured captures that resolve a frame

RV_Init ==
    /\ MainIdle /\ pc = "receive"
    /\ producer = [kind |-> "gl", env |-> "ok", state |-> "ok"]
    /\ ProducerFresh
    /\ ConsumerIdle
    /\ hist = NoHist
    /\ lastLookup = NoLookup
    /\ lat = NoLat

RV_StartFrame ==
    /\ m_currentFrame < MaxReceiveStarted
    /\ StartFrame
    /\ UNCHANGED <<mainVars, producer, m_streaming, streamThreads, p_held, p_released,
                   wire, consVars, hist, lastLookup, lat>>

\* The lookup and the if/else that follows it in the three CaptureFrames.
RV_Capture ==
    /\ Len(hist.resolved) < MaxCaptures
    /\ \E pixel \in {FrameColor(n) : n \in 0..(m_currentFrame - 1)} \cup {<<255, 255, 255>>} :
           Resolve(pixel)
    /\ UNCHANGED <<mainVars, producer, m_streaming, streamThreads, m_currentFrame, p_held,
                   p_released, wire, consumer, c_held, cap, gstc, lat>>

RV_Next == RV_StartFrame \/ RV_Capture

SpecReceive == RV_Init /\ [][RV_Next]_vars

\* C24: after any sequence of captures the frame numbers of the received
\* list are strictly increasing: no frame is listed twice and none is listed
\* after a newer one.
C24_StrictlyIncreasing ==
    \A i, j \in DOMAIN c_frames : i < j => c_frames[i] < c_frames[j]

\* Frames 0, 2 and 3 received, frame 2 twice, and a late capture of frame 1,
\* which the lookup of frame 2 had evicted, resolved to no frame.
C24_Witness ==
    /\ c_frames = <<0, 2, 3>>
    /\ frame[2].m_duplicateReceives = 1
    /\ hist.missed
    /\ lastLookup.pixel = FrameColor(1) /\ lastLookup.result = NoFrame

(***************************************************************************)
(* SpecGstCapture: GStreamerConsumer::CaptureFrames and BufferCallback     *)
(* statement by statement, with m_frameCountMutex. gstc carries besides    *)
(* its other fields the mutex's holder, the callback's position and the    *)
(* frame its lookup returned.                                              *)
(***************************************************************************)
GC_Init ==
    /\ MainIdle /\ pc = "capture"
    /\ \E kind \in ProducerKinds :
           /\ producer = [kind |-> kind, env |-> "ok", state |-> "ok"]
           /\ p_held = ProducerInitialize(kind, "ok").held
    /\ m_streaming = TRUE
    /\ streamThreads = <<[pc |-> "check", cur |-> NoFrame]>>
    /\ m_currentFrame = 0
    /\ m_frames = <<>>
    /\ frame = [n \in {} |-> NewFrame(n)]
    /\ p_released = NoReleases
    /\ wire = NoFrame
    /\ consumer = [kind |-> "gst", env |-> "ok", state |-> "streaming"]
    /\ c_held = ConsumerInitialize("gst", "ok").held
    /\ \E numFrames \in 1..MaxNumFrames, warmupFrames \in 0..MaxWarmup :
           cap = StartCapture("gst", numFrames, warmupFrames)
    /\ gstc = [NoGstc EXCEPT !.playing = TRUE]
                  @@ [mutex |-> "free", cb |-> "idle", cbFrame |-> NoFrame]
    /\ c_frames = <<>>
    /\ hist = [NoHist EXCEPT !.lastStream = "StartStreaming"]
    /\ lastLookup = NoLookup
    /\ lat = NoLat

\* CaptureFrames: lock, the three assignments, unlock.
GC_Setup == gstc.mutex = "free" /\ Gst_CaptureSetup

\* CaptureFrames: lock, done = ..., unlock.
GC_CheckDone == gstc.mutex = "free" /\ Gst_CheckDone

cbRest == <<mainRest, pc, producer, m_streaming, streamThreads, m_currentFrame,
            p_held, p_released, wire, consumer, c_held, cap, lat>>

\* BufferCallback: the sample and the buffer are pulled from the sink.
CB_Pull ==
    /\ gstc.cb = "idle" /\ gstc.playing /\ ~gstc.flowError
    /\ \E sample \in {"ok", "fail"} :
           IF sample = "ok"
           THEN gstc' = [gstc EXCEPT !.cb = "lock"] /\ UNCHANGED errors
           ELSE gstc' = FlowError /\ errors' = errors \cup {"capture: GStreamer sample"}
    /\ UNCHANGED <<cbRest, m_frames, frame, c_frames, hist, lastLookup>>

\* The callback going on without taking the mutex.
CB_LockSkipped ==
    /\ gstc.cb = "lock"
    /\ gstc' = [gstc EXCEPT !.cb = "count"]
    /\ UNCHANGED <<cbRest, errors, m_frames, frame, c_frames, hist, lastLookup>>

\* std::lock_guard<std::mutex> lock(m_frameCountMutex)
CB_Lock ==
    /\ gstc.cb = "lock" /\ gstc.mutex = "free"
    /\ gstc' = [gstc EXCEPT !.cb = "count", !.mutex = "callback"]
    /\ UNCHANGED <<cbRest, errors, m_frames, frame, c_frames, hist, lastLookup>>

\* The two tests in the other order: measured frames are counted first.
CB_CountMeasuredFirst ==
    /\ gstc.cb = "count"
    /\ IF gstc.m_framesRemaining # 0
       THEN gstc' = [gstc EXCEPT !.cb = "lookup"] /\ UNCHANGED hist
       ELSE IF gstc.m_warmupFramesRemaining # 0
       THEN /\ gstc' = [gstc EXCEPT !.m_warmupFramesRemaining = @ - 1, !.cb = "unlock"]
            /\ hist' = [hist EXCEPT !.discarded = @ + 1]
       ELSE gstc' = [gstc EXCEPT !.cb = "unlock"] /\ UNCHANGED hist
    /\ UNCHANGED <<cbRest, errors, m_frames, frame, c_frames, lastLookup>>

\* if (m_warmupFramesRemaining) ... else if (m_framesRemaining) ...
CB_Count ==
    /\ gstc.cb = "count"
    /\ IF gstc.m_warmupFramesRemaining # 0
       THEN /\ gstc' = [gstc EXCEPT !.m_warmupFramesRemaining = @ - 1, !.cb = "unlock"]
            /\ hist' = [hist EXCEPT !.discarded = @ + 1]
       ELSE /\ gstc' = [gstc EXCEPT !.cb = IF gstc.m_framesRemaining # 0
                                           THEN "lookup" ELSE "unlock"]
            /\ UNCHANGED hist
    /\ UNCHANGED <<cbRest, errors, m_frames, frame, c_frames, lastLookup>>

\* The buffer is mapped and copied and its frame looked up; a failure
\* returns GST_FLOW_ERROR, the guard releasing the mutex.
CB_Lookup ==
    /\ gstc.cb = "lookup"
    /\ \E map \in {"ok", "fail"}, pixel \in CapturedPixels :
           IF map = "fail"
           THEN /\ gstc' = [FlowError EXCEPT !.cb = "idle", !.mutex = "free"]
                /\ errors' = errors \cup {"capture: GStreamer map"}
                /\ UNCHANGED <<m_frames, lastLookup, hist>>
           ELSE /\ Lookup(pixel)
                /\ UNCHANGED errors
                /\ IF Missed(pixel)
                   THEN /\ gstc' = [FlowError EXCEPT !.cb = "idle", !.mutex = "free"]
                        /\ hist' = [hist EXCEPT !.missed = TRUE]
                   ELSE /\ gstc' = [gstc EXCEPT !.cb = "record",
                                                !.cbFrame = GetFrame(m_frames, pixel).result]
                        /\ UNCHANGED hist
    /\ UNCHANGED <<cbRest, frame, c_frames>>

\* The frame is counted as a duplicate receive or appended.
CB_Record ==
    /\ gstc.cb = "record"
    /\ IF c_frames # <<>> /\ Last(c_frames) = gstc.cbFrame
       THEN /\ frame' = [frame EXCEPT ![gstc.cbFrame].m_duplicateReceives = @ + 1]
            /\ UNCHANGED c_frames
       ELSE /\ c_frames' = Append(c_frames, gstc.cbFrame)
            /\ UNCHANGED frame
    /\ hist' = [hist EXCEPT !.resolved = Append(@, gstc.cbFrame)]
    /\ gstc' = [gstc EXCEPT !.cb = "decrement"]
    /\ UNCHANGED <<cbRest, errors, m_frames, lastLookup>>

\* m_framesRemaining--
CB_Decrement ==
    /\ gstc.cb = "decrement"
    /\ gstc' = [gstc EXCEPT !.m_framesRemaining = @ - 1, !.cb = "unlock"]
    /\ UNCHANGED <<cbRest, errors, m_frames, frame, c_frames, hist, lastLookup>>

\* return GST_FLOW_OK: the sample is released, then the mutex.
CB_Unlock ==
    /\ gstc.cb = "unlock"
    /\ gstc' = [gstc EXCEPT !.cb = "idle",
                            !.mutex = IF @ = "callback" THEN "free" ELSE @]
    /\ UNCHANGED <<cbRest, errors, m_frames, frame, c_frames, hist, lastLookup>>

BufferCallback ==
    \/ CB_Pull
    \/ CB_Lock
    \/ CB_Count
    \/ CB_Lookup
    \/ CB_Record
    \/ CB_Decrement
    \/ CB_Unlock

GC_CaptureFrames ==
    \/ GC_Setup
    \/ Gst_ClearEos
    \/ Gst_Iterate
    \/ GC_CheckDone

GC_Next ==
    \/ StreamThread
    \/ GC_CaptureFrames
    \/ BufferCallback
    \/ Gst_PipelineStops
    \/ Gst_ProducerDispatch

SpecGstCapture == GC_Init /\ [][GC_Next]_vars

\* The positions of a callback at which it is resolving its frame or
\* updating the received list or the countdown.
Updating == {"lookup", "record", "decrement"}

\* C25: the polling loop's test of the countdowns never runs while a
\* callback is between its lock and its return, so it finds both at zero
\* only after the callback of the last measured buffer has resolved its
\* frame and appended or counted it; when CaptureFrames returns success the
\* received list is complete and no callback is updating it.
C25_CompleteAtSuccess ==
    /\ [](cap.result = "true" =>
             /\ gstc.cb \notin Updating
             /\ Len(hist.resolved) = cap.numFrames
             /\ Receives = cap.numFrames
             /\ gstc.m_framesRemaining = 0 /\ gstc.m_warmupFramesRemaining = 0)
    /\ [][(cap.pc = "check" /\ cap'.pc # "check") =>
              gstc.cb \in {"idle", "lock"}]_vars

\* Success with the last measured buffer counted as a duplicate receive and
\* the next buffer's callback waiting to be run.
C25_Witness ==
    /\ cap.result = "true"
    /\ cap.numFrames = 2 /\ cap.warmupFrames = 1
    /\ Len(c_frames) = 1 /\ SumDuplicates(c_frames) = 1
    /\ gstc.cb = "lock"

\* A step of a callback that is past its lock.
CallbackStep == gstc.cb \in {"count", "lookup", "record", "decrement", "unlock"} /\ gstc'.cb # gstc.cb

\* C26: in the buffer callback the measured countdown is decremented only
\* when the warm-up countdown is zero, a callback decrements at most one
\* countdown, by one, neither countdown goes below zero, and a callback
\* that finds both at zero, before CaptureFrames has set them or after it
\* completed, leaves the received list, the retained list and both
\* countdowns as they are.
C26_Countdowns ==
    /\ [](gstc.m_warmupFramesRemaining >= 0 /\ gstc.m_framesRemaining >= 0)
    /\ [][LET w == gstc.m_warmupFramesRemaining
              f == gstc.m_framesRemaining
              w2 == gstc'.m_warmupFramesRemaining
              f2 == gstc'.m_framesRemaining
          IN  /\ cap.pc # "setup" =>
                     <<w2, f2>> \in {<<w, f>>, <<w - 1, f>>, <<w, f - 1>>}
              /\ (cap.pc # "setup" /\ f2 = f - 1) =>
                     (w = 0 /\ gstc.cb = "decrement" /\ gstc'.cb = "unlock")
              /\ (cap.pc # "setup" /\ w2 = w - 1) =>
                     (gstc.cb = "count" /\ gstc'.cb = "unlock")
              /\ (CallbackStep /\ w = 0 /\ f = 0) =>
                     /\ gstc.cb \in {"count", "unlock"} /\ gstc'.cb \in {"unlock", "idle"}
                     /\ c_frames' = c_frames /\ frame' = frame /\ m_frames' = m_frames
                     /\ w2 = 0 /\ f2 = 0]_vars

\* A callback run after CaptureFrames completed: it found both countdowns at
\* zero and is about to return, the received list as the call left it.
C26_Witness ==
    /\ cap.result = "true"
    /\ gstc.cb = "unlock"
    /\ gstc.m_warmupFramesRemaining = 0 /\ gstc.m_framesRemaining = 0
    /\ Len(c_frames) = 2 /\ cap.numFrames = 2 /\ cap.warmupFrames = 1
    /\ hist.discarded = 1

\* A callback run before CaptureFrames has set the countdowns.
C26_BeforeCapture ==
    /\ cap.pc = "setup"
    /\ gstc.cb = "unlock"
    /\ m_frames # <<>>

(***************************************************************************)
(* SpecGstCaptureFair: the consumer's capture with its threads scheduled:  *)
(* the caller of CaptureFrames keeps polling, the capture pipeline keeps   *)
(* delivering buffers to the callback while it plays, and the producer's   *)
(* stream thread keeps running. The caller's two critical sections wait    *)
(* for m_frameCountMutex, which a callback holds for the length of one     *)
(* buffer and releases at its return, the poll sleeping 1 ms in between:   *)
(* the caller gets the mutex, which is strong fairness of its steps. The   *)
(* producer is the GStreamer one, whose stream thread iterates the main    *)
(* context the consumer's bus watch is attached to.                        *)
(***************************************************************************)
GCF_Init == GC_Init /\ producer.kind = "gst"

SpecGstCaptureFair ==
    /\ GCF_Init
    /\ [][GC_Next]_vars
    /\ SF_vars(GC_CaptureFrames)
    /\ WF_vars(BufferCallback)
    /\ WF_vars(StreamThread)

\* Buffers counted by the callbacks since the countdowns were set.
Counted == hist.discarded + Len(hist.resolved)

\* C27: CaptureFrames of the GStreamer consumer returns failure, streaming
\* stopped, at the pass of its loop that finds m_eos set by the bus watch,
\* and at no other place; it returns success at the poll that finds both
\* countdowns at zero, warmupFrames + numFrames buffers counted; and when
\* no end of stream or error ever occurs and buffers keep arriving, it
\* eventually returns success.
C27_FailureOrSuccess ==
    /\ [][/\ (cap.pc = "iterate" /\ cap'.pc # "iterate") =>
                 IF gstc'.m_eos
                 THEN cap'.pc = "done" /\ cap'.result = "false" /\ ~gstc'.playing
                 ELSE cap'.pc = "check" /\ gstc'.playing = gstc.playing
          /\ (cap.result # "false" /\ cap'.result = "false") =>
                 (cap.pc = "iterate" /\ gstc'.m_eos /\ ~gstc'.playing)
          /\ (cap.pc = "check" /\ cap'.pc # "check") =>
                 IF gstc.m_framesRemaining = 0 /\ gstc.m_warmupFramesRemaining = 0
                 THEN cap'.pc = "done" /\ cap'.result = "true"
                 ELSE cap'.pc = "iterate"
          /\ (cap.result # "true" /\ cap'.result = "true") =>
                 /\ cap.pc = "check"
                 /\ Counted = cap.warmupFrames + cap.numFrames
                 /\ hist.discarded = cap.warmupFrames]_vars
    /\ ([](~gstc.flowError) => <>(cap.result = "true"))

\* CaptureFrames returned success after one warm-up buffer and three
\* measured ones, no end of stream or error having occurred.
C27_Witness ==
    /\ cap.pc = "done" /\ cap.result = "true"
    /\ cap.warmupFrames = 1 /\ cap.numFrames = 3
    /\ Counted = 4
    /\ ~gstc.flowError /\ ~gstc.m_eos /\ gstc.playing

\* CaptureFrames returned failure: its loop found m_eos set after some
\* buffers had been counted, and stopped the pipeline.
C27_FailureReached ==
    /\ cap.pc = "done" /\ cap.result = "false"
    /\ gstc.m_eos /\ ~gstc.playing
    /\ Counted > 0 /\ gstc.m_framesRemaining > 0

(***************************************************************************)
(* The producer-side checkpoints of a frame at the time main computes the  *)
(* statistics. Every StreamThread records the first five checkpoints of    *)
(* its frame before it hands the frame to the output and the sixth,        *)
(* scanout-start, after the wait that follows: the frame's scanout-start   *)
(* is unset (the epoch of a default-constructed TimePoint) while its       *)
(* thread is between StartFrame and RecordScanoutStart. main calls         *)
(* PrintLatencyResults before producer->StopStreaming(), with no lock or   *)
(* join between the stream thread's write and its own read.                *)
(***************************************************************************)
ScanoutRecorded(n) ==
    ~\E i \in 1..Len(streamThreads) :
         streamThreads[i].cur = n /\ streamThreads[i].pc \in {"started", "output"}

\* main's step from CaptureFrames' success to the producer's stop: the
\* consumer is stopped and closed, the statistics are computed and written.
StatisticsStep == pc = "c_stop" /\ pc' = "p_stop"

\* C28: when main computes the statistics every received frame has its
\* scanout-start recorded, and a frame's scanout-start was recorded before
\* the capture that received it.
C28_ScanoutRecordedAtStatistics ==
    [][/\ StatisticsStep =>
              \A k \in 1..Len(c_frames) : ScanoutRecorded(c_frames[k])
       /\ (pc = "capture" /\ Len(c_frames') > Len(c_frames)) =>
              ScanoutRecorded(Last(c_frames'))]_vars

\* The first half alone: the last received frame may still be waiting for
\* its scanout when the statistics read it.
C28_LastFrameRecorded ==
    [][StatisticsStep =>
           (c_frames # <<>> => ScanoutRecorded(Last(c_frames)))]_vars

\* What the stream thread's loop does ensure: a frame received before the
\* last one has its scanout-start recorded, its thread having gone on to
\* the frames after it.
C28_EarlierFramesRecorded ==
    [][StatisticsStep =>
           \A k \in 1..(Len(c_frames) - 1) : ScanoutRecorded(c_frames[k])]_vars

\* main is about to compute the statistics over two received frames, the
\* stream thread still waiting for the scanout of the second.
C28_Witness ==
    /\ pc = "c_stop"
    /\ Len(c_frames) = 2
    /\ ScanoutRecorded(c_frames[1])
    /\ ~ScanoutRecorded(c_frames[2])
    /\ m_streaming

(***************************************************************************)
(* SpecV4L2: the V4L2 consumer from StartStreaming to the return of        *)
(* CaptureFrames, with the driver's buffer queue. cap carries besides its  *)
(* other fields the number of mapped buffers, the number of them queued to *)
(* the driver, and the outcome of the last ReadFrame's VIDIOC_DQBUF (dq)   *)
(* and VIDIOC_QBUF (q, "none" when ReadFrame returned before it).          *)
(***************************************************************************)
RequestedBuffers == 4
MinBuffers == 2

VB_Init ==
    /\ MainIdle /\ pc = "capture"
    /\ \E kind \in ProducerKinds :
           /\ producer = [kind |-> kind, env |-> "ok", state |-> "ok"]
           /\ p_held = ProducerInitialize(kind, "ok").held
    /\ m_streaming = TRUE
    /\ streamThreads = <<[pc |-> "check", cur |-> NoFrame]>>
    /\ m_currentFrame = 0
    /\ m_frames = <<>>
    /\ frame = [n \in {} |-> NewFrame(n)]
    /\ p_released = NoReleases
    /\ wire = NoFrame
    /\ consumer = [kind |-> "v4l2", env |-> "ok", state |-> "ok"]
    /\ c_held = ConsumerInitialize("v4l2", "ok").held
    /\ \E numFrames \in 1..MaxNumFrames, warmupFrames \in 0..MaxWarmup,
          buffers \in MinBuffers..RequestedBuffers :
           cap = [StartCapture("v4l2", numFrames, warmupFrames) EXCEPT !.pc = "start"]
                     @@ [buffers |-> buffers, queued |-> 0, dq |-> "none", q |-> "none"]
    /\ gstc = NoGstc
    /\ c_frames = <<>>
    /\ hist = [NoHist EXCEPT !.lastStream = "StartStreaming"]
    /\ lastLookup = NoLookup
    /\ lat = NoLat

\* V4L2Consumer::StartStreaming: every buffer is queued, then VIDIOC_STREAMON.
\* failed is the index of the buffer whose VIDIOC_QBUF fails, cap.buffers when
\* none does.
V4L2_StartStreaming ==
    /\ consumer.kind = "v4l2"
    /\ cap.pc = "start"
    /\ \E failed \in 0..cap.buffers, on \in BOOLEAN :
           IF failed < cap.buffers
           THEN /\ cap' = [CapFail EXCEPT !.queued = failed]
                /\ errors' = errors \cup {"consumer: queue buffer"}
                /\ UNCHANGED consumer
           ELSE IF ~on
           THEN /\ cap' = [CapFail EXCEPT !.queued = cap.buffers]
                /\ errors' = errors \cup {"consumer: stream on"}
                /\ UNCHANGED consumer
           ELSE /\ cap' = [cap EXCEPT !.queued = cap.buffers, !.pc = "select"]
                /\ consumer' = [consumer EXCEPT !.state = "streaming"]
                /\ UNCHANGED errors
    /\ UNCHANGED <<mainRest, pc, prodVars, c_held, lat, c_frames, gstc, hist, lastLookup>>

\* A ReadFrame in which EAGAIN ends the capture iteration like a frame read.
V4L2_ReadFrameRetryAdvances ==
    /\ consumer.kind = "v4l2"
    /\ cap.pc = "read"
    /\ cap' = [V4L2_Advance EXCEPT !.dq = "eagain", !.q = "none"]
    /\ UNCHANGED <<errors, m_frames, frame, c_frames, hist, lastLookup>>
    /\ UNCHANGED <<mainRest, pc, producer, m_streaming, streamThreads, m_currentFrame,
                   p_held, p_released, wire, consumer, c_held, gstc, lat>>

\* V4L2Consumer::ReadFrame with the driver's queue, and the rest of the body
\* of CaptureFrames' loop: VIDIOC_DQBUF takes a buffer from the driver,
\* VIDIOC_QBUF gives it back.
V4L2_ReadFrameBuffers ==
    /\ consumer.kind = "v4l2"
    /\ cap.pc = "read"
    /\ \E dq \in {"eagain", "error", "ok"}, pixel \in CapturedPixels, q \in {"ok", "error"} :
           LET requeue == IF q = "ok"
                          THEN /\ cap' = [V4L2_Advance EXCEPT !.dq = "ok", !.q = "ok"]
                               /\ UNCHANGED errors
                          ELSE /\ cap' = [CapFail EXCEPT !.dq = "ok", !.q = "error",
                                                         !.queued = @ - 1]
                               /\ errors' = errors \cup {"capture: queue buffer"}
           IN  CASE dq = "eagain" ->
                        /\ cap' = [cap EXCEPT !.pc = "select", !.dq = "eagain", !.q = "none"]
                        /\ UNCHANGED <<errors, m_frames, frame, c_frames, hist, lastLookup>>
                 [] dq = "error" ->
                        /\ cap' = [CapFail EXCEPT !.dq = "error", !.q = "none"]
                        /\ errors' = errors \cup {"capture: dequeue buffer"}
                        /\ UNCHANGED <<m_frames, frame, c_frames, hist, lastLookup>>
                 [] dq = "ok" /\ cap.frame < cap.warmupFrames ->
                        /\ hist' = [hist EXCEPT !.discarded = @ + 1]
                        /\ requeue
                        /\ UNCHANGED <<m_frames, frame, c_frames, lastLookup>>
                 [] dq = "ok" /\ ~(cap.frame < cap.warmupFrames) ->
                        /\ Resolve(pixel)
                        /\ IF Missed(pixel)
                           THEN /\ cap' = [CapFail EXCEPT !.dq = "ok", !.q = "none",
                                                          !.queued = @ - 1]
                                /\ errors' = errors \cup {"capture: read frame"}
                           ELSE requeue
    /\ UNCHANGED <<mainRest, pc, producer, m_streaming, streamThreads, m_currentFrame,
                   p_held, p_released, wire, consumer, c_held, gstc, lat>>

VB_CaptureFrames ==
    \/ V4L2_Select
    \/ V4L2_ReadFrameBuffers

VB_Next ==
    \/ StreamThread
    \/ V4L2_StartStreaming
    \/ VB_CaptureFrames

SpecV4L2 == VB_Init /\ [][VB_Next]_vars

\* C29: a dequeue failing with EAGAIN goes back to the readiness wait, the
\* capture iteration, the received list and the call's result as they
\* were; a wait error, a wait timeout and any other dequeue failure make
\* CaptureFrames return false at once, and once it has returned nothing
\* more is dequeued.
C29_RetryOrFail ==
    [][/\ (cap.pc = "read" /\ cap' # cap /\ cap'.dq = "eagain") =>
              /\ cap'.pc = "select" /\ cap'.frame = cap.frame /\ cap'.result = "none"
              /\ c_frames' = c_frames /\ errors' = errors /\ cap'.queued = cap.queued
       /\ (cap.pc = "read" /\ cap' # cap /\ cap'.dq = "error") =>
              /\ cap'.pc = "done" /\ cap'.result = "false"
              /\ "capture: dequeue buffer" \in errors'
       /\ (cap.pc = "select" /\ cap' # cap) =>
              \/ cap'.pc = "read" /\ errors' = errors /\ cap'.frame = cap.frame
              \/ /\ cap'.pc = "done" /\ cap'.result = "false"
                 /\ errors' \in {errors \cup {"capture: select error"},
                                 errors \cup {"capture: select timeout"}}
       /\ cap.pc = "done" => (cap' = cap /\ c_frames' = c_frames)]_vars

\* A measured capture got EAGAIN and is back at the wait, same iteration,
\* one frame received so far.
C29_Witness ==
    /\ cap.pc = "select" /\ cap.dq = "eagain"
    /\ cap.frame = 2 /\ cap.warmupFrames = 1 /\ cap.numFrames = 3
    /\ Len(c_frames) = 1
    /\ cap.result = "none"

\* CaptureFrames returned false on a wait timeout after a frame was read.
C29_TimeoutReached ==
    /\ cap.pc = "done" /\ cap.result = "false"
    /\ "capture: select timeout" \in errors
    /\ cap.dq = "ok" /\ cap.frame = 1

\* A ReadFrame whose VIDIOC_DQBUF succeeded has returned.
DequeuedStep == cap.pc = "read" /\ cap' # cap /\ cap'.dq = "ok"

\* C30: every buffer ReadFrame dequeued is given back to the driver before
\* ReadFrame returns, on warm-up and measured captures alike: VIDIOC_QBUF
\* is reached, and when it succeeds the driver has as many buffers queued
\* as before the ReadFrame.
C30_RequeuedBeforeReturn ==
    [][DequeuedStep =>
           /\ cap'.q # "none"
           /\ cap'.q = "ok" => cap'.queued = cap.queued]_vars

\* What ReadFrame does ensure: a ReadFrame that returns true has queued its
\* buffer again, a warm-up ReadFrame always reaches VIDIOC_QBUF, the only
\* return between the two ioctls is the one after a failed lookup, and
\* while CaptureFrames is waiting or reading every buffer is with the
\* driver.
C30_RequeuedWhenReadFrameSucceeds ==
    /\ [](cap.pc \in {"select", "read"} => cap.queued = cap.buffers)
    /\ [](cap.result = "true" => cap.queued = cap.buffers)
    /\ [][DequeuedStep =>
              /\ cap'.result # "false" => (cap'.q = "ok" /\ cap'.queued = cap.queued)
              /\ cap.frame < cap.warmupFrames => cap'.q # "none"
              /\ cap'.q = "none" =>
                     (hist'.missed /\ cap'.result = "false" /\ cap'.queued = cap.queued - 1)]_vars

\* CaptureFrames returned true after a warm-up and two measured captures,
\* all four buffers queued.
C30_Witness ==
    /\ cap.pc = "done" /\ cap.result = "true"
    /\ cap.warmupFrames = 1 /\ cap.numFrames = 2 /\ cap.frame = 3
    /\ cap.buffers = RequestedBuffers /\ cap.queued = RequestedBuffers
    /\ cap.dq = "ok" /\ cap.q = "ok"

\* ReadFrame returned after a failed lookup: the buffer it dequeued was not
\* queued again.
C30_BufferHeld ==
    /\ cap.pc = "done" /\ cap.result = "false"
    /\ cap.dq = "ok" /\ cap.q = "none"
    /\ cap.queued = cap.buffers - 1
    /\ hist.missed

(***************************************************************************)
(* SpecAja: AJAProducer::StreamThread and AJAConsumer::CaptureFrames,      *)
(* statement by statement, against the device's frame buffers. producer    *)
(* carries besides its other fields the output side of the device: the     *)
(* output frame register (outputFrame), the buffer being scanned out since *)
(* the last output vertical interrupt (scanning) and the frame held by     *)
(* each output buffer (fb). The stream thread's record carries its locals  *)
(* currentHwFrame and nextHwFrame, the source of its DMA write, and log,   *)
(* the device calls and checkpoints it has made so far. consumer carries   *)
(* the input side: the input frame register (inputFrame), the buffer being *)
(* filled since the last input vertical interrupt (capturing), the buffer  *)
(* that interrupt completed (completed), the frame held by each input      *)
(* buffer (fb) and the buffers filled since the call began (filled). cap   *)
(* carries CaptureFrames' locals currentHwFrame and nextHwFrame, the       *)
(* warm-up interrupts still to wait for and the index and first pixel of   *)
(* its last DMA read.                                                      *)
(***************************************************************************)
Xor1(hwFrame) == (hwFrame \div 2) * 2 + (1 - (hwFrame % 2))

ajaProducerRest == <<mainVars, m_streaming, p_held, p_released, consVars, hist,
                     lastLookup, lat>>

AjaThread == streamThreads[1]

\* The thread goes to position next, having logged event.
AjaStep(next, event) ==
    streamThreads' = <<[AjaThread EXCEPT !.pc = next, !.log = Append(@, event)]>>

\* An output vertical interrupt: the device starts scanning out the buffer
\* the output frame register names.
OutputInterrupt ==
    /\ producer' = [producer EXCEPT !.scanning = producer.outputFrame]
    /\ wire' = IF producer.fb[producer.outputFrame] = NoFrame THEN wire
               ELSE producer.fb[producer.outputFrame]

\* The device's output running on while the thread is busy.
AJA_OutputVerticalInterrupt ==
    /\ producer.kind = "aja"
    /\ producer.scanning # producer.outputFrame
    /\ OutputInterrupt
    /\ UNCHANGED <<ajaProducerRest, streamThreads, frameVars>>

\* StreamThread: currentHwFrame = 0; SetOutputFrame(m_channel, currentHwFrame).
AJAP_SetInitialFrame ==
    /\ AjaThread.pc = "init"
    /\ producer' = [producer EXCEPT !.outputFrame = 0]
    /\ streamThreads' = <<[AjaThread EXCEPT !.pc = "init_wait", !.currentHwFrame = 0,
                                            !.log = Append(@, <<"SetOutputFrame", 0>>)]>>
    /\ UNCHANGED <<ajaProducerRest, frameVars, wire>>

\* StreamThread: WaitForOutputVerticalInterrupt before the loop.
AJAP_InitialWait ==
    /\ AjaThread.pc = "init_wait"
    /\ OutputInterrupt
    /\ AjaStep("check", <<"WaitForOutputVerticalInterrupt", producer.outputFrame>>)
    /\ UNCHANGED <<ajaProducerRest, frameVars>>

\* while (IsStreaming())
AJAP_Check ==
    /\ AjaThread.pc = "check"
    /\ m_streaming => m_currentFrame < MaxFrames
    /\ streamThreads' = <<[AjaThread EXCEPT !.pc = IF m_streaming THEN "body" ELSE "exited"]>>
    /\ UNCHANGED <<ajaProducerRest, producer, frameVars, wire>>

\* StartFrame and the checkpoints up to RecordCopiedFromGPU.
AJAP_StartFrame ==
    /\ AjaThread.pc = "body"
    /\ StartFrame
    /\ streamThreads' = <<[AjaThread EXCEPT
           !.pc = "dma", !.cur = m_currentFrame,
           !.log = @ \o << <<"RecordProcessingStart", m_currentFrame>>,
                           <<"RecordRenderStart", m_currentFrame>>,
                           <<"RecordRenderEnd", m_currentFrame>>,
                           <<"RecordCopiedFromGPU", m_currentFrame>> >>]>>
    /\ UNCHANGED <<ajaProducerRest, producer, wire>>

\* A DMA write into the buffer the output is pointed at.
AJAP_DMAWriteFrameCurrent ==
    /\ AjaThread.pc = "dma"
    /\ producer' = [producer EXCEPT !.fb[AjaThread.currentHwFrame] = AjaThread.cur]
    /\ streamThreads' = <<[AjaThread EXCEPT
           !.pc = "set_output", !.nextHwFrame = AjaThread.currentHwFrame,
           !.log = Append(@, <<"DMAWriteFrame", AjaThread.currentHwFrame>>)]>>
    /\ UNCHANGED <<ajaProducerRest, frameVars, wire>>

\* nextHwFrame = currentHwFrame ^ 1; DMAWriteFrame(nextHwFrame, srcBuf, ...).
AJAP_DMAWriteFrame ==
    /\ AjaThread.pc = "dma"
    /\ producer' = [producer EXCEPT !.fb[Xor1(AjaThread.currentHwFrame)] = AjaThread.cur]
    /\ streamThreads' = <<[AjaThread EXCEPT
           !.pc = "set_output", !.nextHwFrame = Xor1(AjaThread.currentHwFrame),
           !.log = Append(@, <<"DMAWriteFrame", Xor1(AjaThread.currentHwFrame)>>)]>>
    /\ UNCHANGED <<ajaProducerRest, frameVars, wire>>

\* SetOutputFrame(m_channel, nextHwFrame).
AJAP_SetOutputFrame ==
    /\ AjaThread.pc = "set_output"
    /\ producer' = [producer EXCEPT !.outputFrame = AjaThread.nextHwFrame]
    /\ AjaStep("write_end", <<"SetOutputFrame", AjaThread.nextHwFrame>>)
    /\ UNCHANGED <<ajaProducerRest, frameVars, wire>>

\* frame->RecordWriteEnd().
AJAP_RecordWriteEnd ==
    /\ AjaThread.pc = "write_end"
    /\ AjaStep("wait", <<"RecordWriteEnd", AjaThread.cur>>)
    /\ UNCHANGED <<ajaProducerRest, producer, frameVars, wire>>

\* WaitForOutputVerticalInterrupt(m_channel) in the loop.
AJAP_Wait ==
    /\ AjaThread.pc = "wait"
    /\ OutputInterrupt
    /\ AjaStep("scanout", <<"WaitForOutputVerticalInterrupt", producer.outputFrame>>)
    /\ UNCHANGED <<ajaProducerRest, frameVars>>

\* frame->RecordScanoutStart(); currentHwFrame = nextHwFrame.
AJAP_RecordScanoutStart ==
    /\ AjaThread.pc = "scanout"
    /\ streamThreads' = <<[AjaThread EXCEPT
           !.pc = "check", !.currentHwFrame = AjaThread.nextHwFrame,
           !.log = Append(@, <<"RecordScanoutStart", AjaThread.cur>>)]>>
    /\ UNCHANGED <<ajaProducerRest, producer, frameVars, wire>>

\* The flag cleared by StopStreaming on the main thread.
AJAP_StopStreaming ==
    /\ producer.kind = "aja"
    /\ m_streaming
    /\ AjaThread.pc \notin {"init", "exited"}
    /\ m_streaming' = FALSE
    /\ UNCHANGED <<mainVars, producer, streamThreads, frameVars, p_held, p_released, wire,
                   consVars, hist, lastLookup, lat>>

AJAProducer_StreamThread ==
    \/ AJAP_SetInitialFrame
    \/ AJAP_InitialWait
    \/ AJAP_Check
    \/ AJAP_StartFrame
    \/ AJAP_DMAWriteFrame
    \/ AJAP_SetOutputFrame
    \/ AJAP_RecordWriteEnd
    \/ AJAP_Wait
    \/ AJAP_RecordScanoutStart

ajaConsumerRest == <<mainRest, pc, prodVars, c_held, gstc, lat>>

\* An input vertical interrupt: the buffer the device was filling holds the
\* frame on the cable, and the device goes on to fill the buffer the input
\* frame register names.
InputInterrupt ==
    consumer' = [consumer EXCEPT !.fb[consumer.capturing] = wire,
                                 !.completed = consumer.capturing,
                                 !.filled = @ \cup {consumer.capturing},
                                 !.capturing = consumer.inputFrame]

\* The device's input running on while CaptureFrames is busy.
AJA_InputVerticalInterrupt ==
    /\ consumer.kind = "aja"
    /\ cap.pc \notin {"done", "warm_wait", "wait"}
    /\ InputInterrupt
    /\ consumer' # consumer
    /\ UNCHANGED <<ajaConsumerRest, errors, m_frames, frame, c_frames, cap, hist, lastLookup>>

\* CaptureFrames: currentHwFrame = 2; SetInputFrame(m_channel, currentHwFrame).
AJAC_SetInitialFrame ==
    /\ cap.pc = "warmup"
    /\ consumer' = [consumer EXCEPT !.inputFrame = 2]
    /\ cap' = [cap EXCEPT !.pc = "warm_wait", !.currentHwFrame = 2,
                          !.waits = cap.warmupFrames]
    /\ UNCHANGED <<ajaConsumerRest, errors, m_frames, frame, c_frames, hist, lastLookup>>

\* WaitForInputVerticalInterrupt(m_channel, warmupFrames): one interrupt per
\* step, none when warmupFrames is 0.
AJAC_WarmupWait ==
    /\ cap.pc = "warm_wait"
    /\ IF cap.waits = 0
       THEN /\ cap' = [cap EXCEPT !.pc = "select"]
            /\ UNCHANGED <<consumer, hist>>
       ELSE /\ InputInterrupt
            /\ cap' = [cap EXCEPT !.waits = @ - 1]
            /\ hist' = [hist EXCEPT !.discarded = @ + 1]
    /\ UNCHANGED <<ajaConsumerRest, errors, m_frames, frame, c_frames, lastLookup>>

\* nextHwFrame = currentHwFrame ^ 1; SetInputFrame(m_channel, nextHwFrame).
AJAC_SetInputFrame ==
    /\ cap.pc = "select"
    /\ consumer' = [consumer EXCEPT !.inputFrame = Xor1(cap.currentHwFrame)]
    /\ cap' = [cap EXCEPT !.pc = "wait", !.nextHwFrame = Xor1(cap.currentHwFrame)]
    /\ UNCHANGED <<ajaConsumerRest, errors, m_frames, frame, c_frames, hist, lastLookup>>

\* WaitForInputVerticalInterrupt(m_channel) in the loop.
AJAC_Wait ==
    /\ cap.pc = "wait"
    /\ InputInterrupt
    /\ cap' = [cap EXCEPT !.pc = "read"]
    /\ UNCHANGED <<ajaConsumerRest, errors, m_frames, frame, c_frames, hist, lastLookup>>

\* A DMA read of the buffer just selected as the input.
AJAC_DMAReadFrameNext ==
    /\ cap.pc = "read"
    /\ cap' = [cap EXCEPT !.pc = "extra_wait", !.readFrom = cap.nextHwFrame,
                          !.pixel = IF consumer.fb[cap.nextHwFrame] = NoFrame
                                    THEN <<0, 0, 0>>
                                    ELSE FrameColor(consumer.fb[cap.nextHwFrame])]
    /\ UNCHANGED <<ajaConsumerRest, errors, consumer, m_frames, frame, c_frames, hist,
                   lastLookup>>

\* DMAReadFrame(currentHwFrame, dstBuf, ...): the first pixel of the buffer
\* read, black for a buffer the device has never filled.
AJAC_DMAReadFrame ==
    /\ cap.pc = "read"
    /\ cap' = [cap EXCEPT !.pc = "extra_wait", !.readFrom = cap.currentHwFrame,
                          !.pixel = IF consumer.fb[cap.currentHwFrame] = NoFrame
                                    THEN <<0, 0, 0>>
                                    ELSE FrameColor(consumer.fb[cap.currentHwFrame])]
    /\ UNCHANGED <<ajaConsumerRest, errors, consumer, m_frames, frame, c_frames, hist,
                   lastLookup>>

\* if (readTime > maxFrameTime) WaitForInputVerticalInterrupt(m_channel).
AJAC_ExtraWait ==
    /\ cap.pc = "extra_wait"
    /\ \E slow \in BOOLEAN :
           IF slow THEN InputInterrupt ELSE UNCHANGED consumer
    /\ cap' = [cap EXCEPT !.pc = "lookup"]
    /\ UNCHANGED <<ajaConsumerRest, errors, m_frames, frame, c_frames, hist, lastLookup>>

\* GetFrame, the duplicate test, and currentHwFrame = nextHwFrame.
AJAC_GetFrame ==
    /\ cap.pc = "lookup"
    /\ Resolve(cap.pixel)
    /\ cap' = IF Missed(cap.pixel) THEN CapFail
              ELSE IF cap.frame + 1 = cap.numFrames
              THEN [cap EXCEPT !.frame = @ + 1, !.currentHwFrame = cap.nextHwFrame,
                               !.pc = "done", !.result = "true"]
              ELSE [cap EXCEPT !.frame = @ + 1, !.currentHwFrame = cap.nextHwFrame,
                               !.pc = "select"]
    /\ UNCHANGED <<mainRest, pc, errors, producer, m_streaming, streamThreads,
                   m_currentFrame, p_held, p_released, wire, consumer, c_held, gstc, lat>>

AJAConsumer_CaptureFrames ==
    \/ AJAC_SetInitialFrame
    \/ AJAC_WarmupWait
    \/ AJAC_SetInputFrame
    \/ AJAC_Wait
    \/ AJAC_DMAReadFrame
    \/ AJAC_ExtraWait
    \/ AJAC_GetFrame

AJ_Init ==
    /\ MainIdle /\ pc = "capture"
    /\ \E useRDMA \in BOOLEAN, outputFrame \in {0, 1} :
           producer = [kind |-> "aja", env |-> "ok", state |-> "ok"]
                          @@ [useRDMA |-> useRDMA, outputFrame |-> outputFrame,
                              scanning |-> outputFrame,
                              fb |-> [b \in {0, 1} |-> NoFrame]]
    /\ p_held = ProducerInitialize("aja", "ok").held
    /\ m_streaming = TRUE
    /\ streamThreads = <<[pc |-> "init", cur |-> NoFrame, currentHwFrame |-> 0,
                          nextHwFrame |-> 0, log |-> <<>>]>>
    /\ m_currentFrame = 0
    /\ m_frames = <<>>
    /\ frame = [n \in {} |-> NewFrame(n)]
    /\ p_released = NoReleases
    /\ wire = NoFrame
    /\ \E inputFrame \in {2, 3} :
           consumer = [kind |-> "aja", env |-> "ok", state |-> "streaming"]
                          @@ [inputFrame |-> inputFrame, capturing |-> inputFrame,
                              completed |-> inputFrame, filled |-> {},
                              fb |-> [b \in {2, 3} |-> NoFrame]]
    /\ c_held = ConsumerInitialize("aja", "ok").held
    /\ \E numFrames \in 1..MaxNumFrames, warmupFrames \in 0..MaxWarmup :
           cap = StartCapture("aja", numFrames, warmupFrames)
                     @@ [currentHwFrame |-> 2, nextHwFrame |-> 2, waits |-> 0,
                         readFrom |-> 2, pixel |-> <<0, 0, 0>>]
    /\ gstc = NoGstc
    /\ c_frames = <<>>
    /\ hist = [NoHist EXCEPT !.lastStream = "StartStreaming"]
    /\ lastLookup = NoLookup
    /\ lat = NoLat

AJ_Next ==
    \/ AJAProducer_StreamThread
    \/ AJA_OutputVerticalInterrupt
    \/ AJAP_StopStreaming
    \/ AJAConsumer_CaptureFrames
    \/ AJA_InputVerticalInterrupt

SpecAja == AJ_Init /\ [][AJ_Next]_vars

\* The last n entries of a sequence.
Tail_n(seq, n) == SubSeq(seq, Len(seq) - n + 1, Len(seq))

\* C31: in AJAProducer::StreamThread the hardware frame index is 0 or 1 and
\* alternates on every frame; the DMA write goes to the index that is
\* neither the one the output register names nor the one being scanned
\* out; the output is pointed at that index after the write; write-end is
\* recorded before the vertical-interrupt wait and scanout-start after it.
C31_DoubleBuffered ==
    /\ [](AjaThread.currentHwFrame \in {0, 1} /\ AjaThread.nextHwFrame \in {0, 1})
    /\ [][/\ (AjaThread.pc = "dma" /\ AjaThread'.pc # "dma") =>
                 LET written == AjaThread'.nextHwFrame
                 IN  /\ written = 1 - AjaThread.currentHwFrame
                     /\ written # producer.outputFrame
                     /\ written # producer.scanning
                     /\ producer'.fb = [producer.fb EXCEPT ![written] = AjaThread.cur]
                     /\ producer'.outputFrame = producer.outputFrame
          /\ (AjaThread.pc = "set_output" /\ AjaThread'.pc # "set_output") =>
                 /\ producer'.outputFrame = AjaThread.nextHwFrame
                 /\ producer.fb[AjaThread.nextHwFrame] = AjaThread.cur
                 /\ producer'.fb = producer.fb
          /\ (AjaThread.pc = "scanout" /\ AjaThread'.pc # "scanout") =>
                 /\ AjaThread'.currentHwFrame = 1 - AjaThread.currentHwFrame
                 /\ producer.scanning = AjaThread'.currentHwFrame
                 /\ Tail_n(AjaThread'.log, 5) =
                        << <<"DMAWriteFrame", AjaThread.nextHwFrame>>,
                           <<"SetOutputFrame", AjaThread.nextHwFrame>>,
                           <<"RecordWriteEnd", AjaThread.cur>>,
                           <<"WaitForOutputVerticalInterrupt", AjaThread.nextHwFrame>>,
                           <<"RecordScanoutStart", AjaThread.cur>> >>]_vars

\* Two frames have been output: frame 0 through buffer 1, frame 1 through
\* buffer 0, which is being scanned out.
C31_Witness ==
    /\ AjaThread.pc = "check"
    /\ m_currentFrame = 2
    /\ AjaThread.currentHwFrame = 0
    /\ producer.fb = [b \in {0, 1} |-> 1 - b]
    /\ producer.scanning = 0
    /\ wire = 1

\* CaptureFrames' DMA read.
ReadStep == cap.pc = "read" /\ cap'.pc = "extra_wait"

\* C32: in AJAConsumer::CaptureFrames the hardware frame index is 2 or 3
\* and alternates on every measured capture; the buffer a DMA read takes
\* is the one the device filled in the interrupt period that has just
\* ended, and is not the buffer selected as the device's input frame.
C32_ReadsJustFilled ==
    /\ [](cap.currentHwFrame \in {2, 3} /\ cap.nextHwFrame \in {2, 3})
    /\ [][/\ ReadStep =>
                 /\ cap'.readFrom = cap.currentHwFrame
                 /\ cap'.readFrom = consumer.completed
                 /\ cap'.readFrom \in consumer.filled
                 /\ cap'.readFrom # consumer.inputFrame
                 /\ cap'.readFrom # consumer.capturing
          /\ cap'.frame = cap.frame + 1 =>
                 cap'.currentHwFrame = 5 - cap.currentHwFrame]_vars

\* The second half with a warm-up wait of at least one interrupt: the read
\* is of the buffer the last interrupt completed. An interrupt between
\* SetInputFrame and the wait makes the read one period late.
C32_JustFilledAfterWarmup ==
    [][(ReadStep /\ cap.warmupFrames >= 1) =>
           cap'.readFrom = consumer.completed]_vars

\* What the loop does ensure: the index is 2 or 3 and alternates, the
\* buffer read is neither the one the input register names nor the one the
\* device is filling, and after a warm-up of at least one interrupt it has
\* been filled since the call began.
C32_ReadsStableBuffer ==
    /\ [](cap.currentHwFrame \in {2, 3} /\ cap.nextHwFrame \in {2, 3})
    /\ [][/\ ReadStep =>
                 /\ cap'.readFrom = cap.currentHwFrame
                 /\ cap'.readFrom # consumer.inputFrame
                 /\ cap'.readFrom # consumer.capturing
                 /\ cap.warmupFrames >= 1 => cap'.readFrom \in consumer.filled
          /\ cap'.frame = cap.frame + 1 =>
                 cap'.currentHwFrame = 5 - cap.currentHwFrame]_vars

\* Two measured captures after a warm-up interrupt: buffer 2 was read, then
\* buffer 3, each filled before its read.
C32_Witness ==
    /\ cap.pc = "done" /\ cap.result = "true"
    /\ cap.warmupFrames = 1 /\ cap.numFrames = 2
    /\ cap.readFrom = 3 /\ cap.currentHwFrame = 2
    /\ consumer.filled = {2, 3}
    /\ c_frames = <<0, 1>>

\* Without a warm-up wait: the first read has taken buffer 2, which the
\* device has not filled, the interrupt having completed buffer 3.
C32_UnfilledRead ==
    /\ cap.warmupFrames = 0 /\ cap.frame = 0
    /\ cap.pc = "extra_wait"
    /\ cap.readFrom = 2
    /\ consumer.filled = {3} /\ consumer.completed = 3
    /\ wire # NoFrame
    /\ cap.pixel = <<0, 0, 0>>

(***************************************************************************)
(* SpecCheckpoints: the Record* calls of a stream thread and of a          *)
(* consumer's capture, with the clock. A frame carries besides its number  *)
(* and duplicate counter the time point of each checkpoint (t, 0 for the   *)
(* default-constructed TimePoint) and the number of times each was written *)
(* (writes). lat holds the clock: Clock::now() returns the last value or a *)
(* later one. cap carries the capture's three local time points and the    *)
(* pixel it read.                                                          *)
(***************************************************************************)
MaxStamped == 1      \* frames the stream thread may start
MaxStampedCaptures == 2   \* numFrames of the capture
MaxClock == 2        \* the latest instant the clock reaches

ProducerCheckpoints == SubSeq(Checkpoints, 1, 6)
ConsumerCheckpoints == SubSeq(Checkpoints, 7, 9)

StampedFrame(number) ==
    NewFrame(number) @@ [t |-> [c \in SeqToSet(Checkpoints) |-> 0],
                         writes |-> [c \in SeqToSet(Checkpoints) |-> 0]]

\* Frame::Record<c>(time)
Record(f, c, time) == [f EXCEPT !.t[c] = time, !.writes[c] = @ + 1]

\* The instants Clock::now() may return.
Now == {n \in {lat.now, lat.now + 1} : n <= MaxClock}

ckThreadRest == <<mainVars, producer, m_streaming, p_held, p_released, consVars, hist,
                  lastLookup>>
ckCaptureRest == <<mainRest, pc, producer, m_streaming, streamThreads, m_currentFrame,
                   p_held, p_released, wire, consumer, c_held, gstc>>

CkThread == streamThreads[1]

\* while (IsStreaming())
CK_Check ==
    /\ CkThread.pc = "check"
    /\ m_currentFrame < MaxStamped
    /\ streamThreads' = <<[CkThread EXCEPT !.pc = "body"]>>
    /\ UNCHANGED <<ckThreadRest, frameVars, wire, lat>>

\* auto frame = StartFrame()
CK_StartFrame ==
    /\ CkThread.pc = "body"
    /\ m_frames' = Append(m_frames, m_currentFrame)
    /\ frame' = (m_currentFrame :> StampedFrame(m_currentFrame)) @@ frame
    /\ m_currentFrame' = m_currentFrame + 1
    /\ streamThreads' = <<[pc |-> "record", cur |-> m_currentFrame, k |-> 0]>>
    /\ UNCHANGED <<ckThreadRest, wire, lat>>

\* The number of Record calls a stream thread makes before it hands the
\* frame to the output: the AJA thread selects the output frame between
\* RecordCopiedFromGPU and RecordWriteEnd, the others swap or push the
\* buffer after RecordWriteEnd.
RecordsBeforeOutput(kind) == IF kind = "aja" THEN 4 ELSE 5

\* The position after k Record calls, the output done or not.
CK_After(k, output) ==
    CASE k = RecordsBeforeOutput(producer.kind) /\ ~output -> "output"
      [] k = 5 -> "scanout"
      [] OTHER -> "record"

\* RecordProcessingStart ... RecordWriteEnd, one call per step.
CK_Record ==
    /\ CkThread.pc = "record"
    /\ \E now \in Now :
           /\ frame' = [frame EXCEPT ![CkThread.cur] =
                            Record(@, ProducerCheckpoints[CkThread.k + 1], now)]
           /\ lat' = [lat EXCEPT !.now = now]
    /\ streamThreads' = <<[CkThread EXCEPT !.k = @ + 1,
                                           !.pc = CK_After(CkThread.k + 1, FALSE)]>>
    /\ UNCHANGED <<ckThreadRest, m_currentFrame, m_frames, wire>>

\* The frame is handed to the output: glfwSwapBuffers and glFinish,
\* gst_app_src_push_buffer, or DMAWriteFrame and SetOutputFrame, after which
\* the device scans the frame out at its next interrupt.
CK_Output ==
    /\ CkThread.pc = "output"
    /\ wire' = CkThread.cur
    /\ streamThreads' = <<[CkThread EXCEPT !.pc = CK_After(CkThread.k, TRUE)]>>
    /\ UNCHANGED <<ckThreadRest, frameVars, lat>>

\* frame->RecordScanoutStart()
CK_RecordScanoutStart ==
    /\ CkThread.pc = "scanout"
    /\ \E now \in Now :
           /\ frame' = [frame EXCEPT ![CkThread.cur] = Record(@, "m_scanoutStart", now)]
           /\ lat' = [lat EXCEPT !.now = now]
    /\ streamThreads' = <<[CkThread EXCEPT !.pc = "check", !.k = 6]>>
    /\ UNCHANGED <<ckThreadRest, m_currentFrame, m_frames, wire>>

\* TimePoint receiveTime = Clock::now(), the captured buffer at hand.
CK_Receive ==
    /\ cap.pc = "receive"
    /\ \E now \in Now, pixel \in CapturedPixels :
           /\ cap' = [cap EXCEPT !.pc = "read", !.receiveTime = now, !.pixel = pixel]
           /\ lat' = [lat EXCEPT !.now = now]
    /\ UNCHANGED <<ckCaptureRest, errors, frameVars, c_frames, hist, lastLookup>>

\* TimePoint readEnd = Clock::now()
CK_ReadEnd ==
    /\ cap.pc = "read"
    /\ \E now \in Now :
           /\ cap' = [cap EXCEPT !.pc = "copy", !.readEnd = now]
           /\ lat' = [lat EXCEPT !.now = now]
    /\ UNCHANGED <<ckCaptureRest, errors, frameVars, c_frames, hist, lastLookup>>

\* TimePoint copiedToGPU = Clock::now()
CK_CopiedToGPU ==
    /\ cap.pc = "copy"
    /\ \E now \in Now :
           /\ cap' = [cap EXCEPT !.pc = "resolve", !.copiedToGPU = now]
           /\ lat' = [lat EXCEPT !.now = now]
    /\ UNCHANGED <<ckCaptureRest, errors, frameVars, c_frames, hist, lastLookup>>

\* The frame after the consumer's three Record calls.
Received(f) ==
    Record(Record(Record(f, "m_frameReceived", cap.receiveTime),
                  "m_readEnd", cap.readEnd),
           "m_copiedToGPU", cap.copiedToGPU)

CK_Advance ==
    IF cap.frame + 1 = cap.numFrames
    THEN [cap EXCEPT !.frame = @ + 1, !.pc = "done", !.result = "true"]
    ELSE [cap EXCEPT !.frame = @ + 1, !.pc = "receive"]

\* A resolve that records the three time points on a duplicate as well.
CK_ResolveRecordsAlways ==
    /\ cap.pc = "resolve"
    /\ LET r == GetFrame(m_frames, cap.pixel)
       IN  /\ Lookup(cap.pixel)
           /\ IF r.result = NoFrame
              THEN /\ cap' = CapFail
                   /\ hist' = [hist EXCEPT !.missed = TRUE]
                   /\ UNCHANGED <<frame, c_frames>>
              ELSE /\ frame' = [frame EXCEPT ![r.result] = Received(@)]
                   /\ c_frames' = IF c_frames # <<>> /\ Last(c_frames) = r.result
                                  THEN c_frames ELSE Append(c_frames, r.result)
                   /\ hist' = [hist EXCEPT !.resolved = Append(@, r.result)]
                   /\ cap' = CK_Advance
    /\ UNCHANGED <<ckCaptureRest, errors, m_currentFrame, lat>>

\* GetFrame, then RecordDuplicateReceive for the frame received last, or
\* RecordFrameReceived, RecordReadEnd, RecordCopiedToGPU and push_back.
CK_Resolve ==
    /\ cap.pc = "resolve"
    /\ LET r == GetFrame(m_frames, cap.pixel)
       IN  /\ Lookup(cap.pixel)
           /\ IF r.result = NoFrame
              THEN /\ cap' = CapFail
                   /\ hist' = [hist EXCEPT !.missed = TRUE]
                   /\ UNCHANGED <<frame, c_frames>>
              ELSE /\ IF c_frames # <<>> /\ Last(c_frames) = r.result
                      THEN /\ frame' = [frame EXCEPT ![r.result].m_duplicateReceives = @ + 1]
                           /\ UNCHANGED c_frames
                      ELSE /\ frame' = [frame EXCEPT ![r.result] = Received(@)]
                           /\ c_frames' = Append(c_frames, r.result)
                   /\ hist' = [hist EXCEPT !.resolved = Append(@, r.result)]
                   /\ cap' = CK_Advance
    /\ UNCHANGED <<ckCaptureRest, errors, m_currentFrame, lat>>

\* The backends explored: the two orders in which a stream thread makes its
\* Record calls and hands the frame over (the GStreamer thread's is the GL
\* thread's), each with a consumer; the three consumers stamp and record
\* alike.
StampedProducers == {"gl", "aja"}
LoopbackConsumer(kind) == IF kind = "gl" THEN "v4l2" ELSE "aja"

CK_Init ==
    /\ MainIdle /\ pc = "capture"
    /\ \E kind \in StampedProducers :
           /\ producer = [kind |-> kind, env |-> "ok", state |-> "ok"]
           /\ p_held = ProducerInitialize(kind, "ok").held
           /\ consumer = [kind |-> LoopbackConsumer(kind), env |-> "ok",
                          state |-> "streaming"]
    /\ m_streaming = TRUE
    /\ streamThreads = <<[pc |-> "check", cur |-> NoFrame, k |-> 0]>>
    /\ m_currentFrame = 0
    /\ m_frames = <<>>
    /\ frame = [n \in {} |-> StampedFrame(n)]
    /\ p_released = NoReleases
    /\ wire = NoFrame
    /\ c_held = ConsumerInitialize(consumer.kind, "ok").held
    /\ cap = [StartCapture(consumer.kind, MaxStampedCaptures, 0) EXCEPT !.pc = "receive"]
                 @@ [receiveTime |-> 0, readEnd |-> 0, copiedToGPU |-> 0,
                     pixel |-> <<0, 0, 0>>]
    /\ gstc = [NoGstc EXCEPT !.playing = (consumer.kind = "gst")]
    /\ c_frames = <<>>
    /\ hist = [NoHist EXCEPT !.lastStream = "StartStreaming"]
    /\ lastLookup = NoLookup
    /\ lat = [state |-> "clock", now |-> 1]

CK_Next ==
    \/ CK_Check
    \/ CK_StartFrame
    \/ CK_Record
    \/ CK_Output
    \/ CK_RecordScanoutStart
    \/ CK_Receive
    \/ CK_ReadEnd
    \/ CK_CopiedToGPU
    \/ CK_Resolve

SpecCheckpoints == CK_Init /\ [][CK_Next]_vars

\* The checkpoints of frame n whose write count changes in a step.
Written(n) ==
    {c \in SeqToSet(Checkpoints) : frame'[n].writes[c] # frame[n].writes[c]}

\* A step of the stream thread or of the capture, seen from frame n.
C33_Step(n) ==
    /\ \A c \in Written(n) \cap SeqToSet(ProducerCheckpoints) :
           /\ CkThread.cur = n
           /\ CkThread.pc \in {"record", "scanout"}
    /\ (Written(n) \cap SeqToSet(ConsumerCheckpoints) # {}) =>
           /\ n \notin SeqToSet(c_frames)
           /\ c_frames' = Append(c_frames, n)
           /\ Written(n) = SeqToSet(ConsumerCheckpoints)
    /\ (frame'[n].m_duplicateReceives # frame[n].m_duplicateReceives) =>
           /\ frame'[n] = [frame[n] EXCEPT !.m_duplicateReceives = @ + 1]
           /\ c_frames' = c_frames
           /\ Last(c_frames) = n

\* The stream thread's and the capture's steps obey C33_Step.
C33_StepsWriteOnce == [][\A n \in DOMAIN frame : C33_Step(n)]_vars

\* The number of lookups that resolved to frame n so far.
ResolvedTo(n) == Count(hist.resolved, n)

\* C33: every one of a frame's nine checkpoints is written at most once: the
\* six producer-side ones by the stream thread in the loop iteration that
\* created the frame (a frame other than the thread's current one has all
\* six, the current one the first k in order), the three consumer-side ones
\* only when the frame is first appended to the received list (the frames
\* of the list have all three, each frame is in it once, the others have
\* none); a duplicate receive changes the frame's duplicate counter and
\* nothing else (every resolve of the frame after the first has counted).
C33_CheckpointsWrittenOnce ==
    \A n \in DOMAIN frame :
        LET f == frame[n]
        IN  /\ \A c \in SeqToSet(Checkpoints) : f.writes[c] <= 1
            /\ \A i \in 1..6 :
                   f.writes[ProducerCheckpoints[i]] =
                       IF n # CkThread.cur \/ i <= CkThread.k THEN 1 ELSE 0
            /\ \A c \in SeqToSet(ConsumerCheckpoints) :
                   f.writes[c] = Count(c_frames, n)
            /\ ResolvedTo(n) = IF n \in SeqToSet(c_frames)
                               THEN 1 + f.m_duplicateReceives ELSE 0
            /\ n \notin SeqToSet(c_frames) => f.m_duplicateReceives = 0

\* A frame with all nine checkpoints written, received once more afterwards.
C33_Witness ==
    \E n \in DOMAIN frame :
        /\ \A c \in SeqToSet(Checkpoints) : frame[n].writes[c] = 1
        /\ frame[n].m_duplicateReceives = 1
        /\ c_frames = <<n>>

\* The seven stages of PrintLatencyResults that the wire does not separate:
\* processing, render, copy from the GPU, write, the vsync wait, read, and
\* copy to the GPU, each from its first checkpoint to its second.
Stages ==
    <<<<"m_processingStart", "m_renderStart">>, <<"m_renderStart", "m_renderEnd">>,
      <<"m_renderEnd", "m_copiedFromGPU">>, <<"m_copiedFromGPU", "m_writeEnd">>,
      <<"m_writeEnd", "m_scanoutStart">>,
      <<"m_frameReceived", "m_readEnd">>, <<"m_readEnd", "m_copiedToGPU">>>>

\* DurationList::Append(start, end) of a stage of frame f: end - start.
StageDuration(f, stage) == f.t[stage[2]] - f.t[stage[1]]

\* CaptureFrames has returned true: main goes on to the statistics.
AtStatistics == cap.pc = "done" /\ cap.result = "true"

\* C34: the checkpoints are recorded in their order with non-decreasing
\* instants, so that for every received frame each of the seven stage
\* durations the statistics compute is non-negative.
C34_StagesNonNegative ==
    AtStatistics =>
        \A k \in 1..Len(c_frames) : \A i \in 1..Len(Stages) :
            StageDuration(frame[c_frames[k]], Stages[i]) >= 0

\* What the order of the Record calls does ensure: a checkpoint of a side is
\* written only after the one before it and with no earlier instant; a
\* received frame has its three consumer checkpoints written; and a stage
\* is non-negative once its second checkpoint is written.
C34_RecordedInOrder ==
    \A n \in DOMAIN frame :
        LET f == frame[n]
            InOrder(side) ==
                \A i \in 1..(Len(side) - 1) :
                    f.writes[side[i + 1]] = 1 =>
                        /\ f.writes[side[i]] = 1
                        /\ f.t[side[i]] <= f.t[side[i + 1]]
        IN  /\ InOrder(ProducerCheckpoints)
            /\ InOrder(ConsumerCheckpoints)
            /\ \A c \in SeqToSet(Checkpoints) : f.writes[c] = 0 <=> f.t[c] = 0
            /\ n \in SeqToSet(c_frames) =>
                   \A c \in SeqToSet(ConsumerCheckpoints) : f.writes[c] = 1
            /\ \A i \in 1..Len(Stages) :
                   f.writes[Stages[i][2]] = 1 => StageDuration(f, Stages[i]) >= 0

\* The statistics are due over a frame with all nine checkpoints written,
\* the clock having advanced between its first and its last.
C34_Witness ==
    /\ AtStatistics
    /\ \E k \in 1..Len(c_frames) :
           LET f == frame[c_frames[k]]
           IN  /\ \A c \in SeqToSet(Checkpoints) : f.writes[c] = 1
               /\ f.t["m_processingStart"] < f.t["m_copiedToGPU"]

\* The statistics are due while the stream thread has yet to record the
\* scanout-start of the received frame: the vsync wait comes out negative.
C34_NegativeVsyncWait ==
    /\ AtStatistics
    /\ CkThread.pc = "scanout"
    /\ CkThread.cur = Last(c_frames)
    /\ StageDuration(frame[CkThread.cur], Stages[5]) < 0

(***************************************************************************)
(* SpecStartFrame: Producer::StartFrame and Producer::GetFrame with the    *)
(* list mutex and the 32-bit frame counter. A sequence number is the pair  *)
(* of its 16-bit halves [hi, lo], so that the counter keeps the width of   *)
(* uint32_t; a frame's colour is decided by the low 12 bits, those of lo.  *)
(* producer carries the owner of m_framesMutex, hist the numbers StartFrame *)
(* has returned (started) and the counter at the start (origin), cap the   *)
(* lookup's pixel and the index its scan found.                            *)
(***************************************************************************)
MaxWrapStarted == 3     \* calls of StartFrame

HalfWord == 65536

Zero32 == [hi |-> 0, lo |-> 0]
Max32 == [hi |-> HalfWord - 1, lo |-> HalfWord - 1]

\* n + 1 in uint32_t
Inc32(n) ==
    IF n.lo + 1 < HalfWord THEN [n EXCEPT !.lo = @ + 1]
    ELSE [hi |-> (n.hi + 1) % HalfWord, lo |-> 0]

\* n - 1 in uint32_t
Dec32(n) ==
    IF n.lo > 0 THEN [n EXCEPT !.lo = @ - 1]
    ELSE [hi |-> (n.hi + HalfWord - 1) % HalfWord, lo |-> HalfWord - 1]

\* The low halves of a list of numbers.
Lows(list) == [i \in 1..Len(list) |-> list[i].lo]

sfThreadRest == <<mainVars, m_streaming, p_held, p_released, wire, consVars, lastLookup,
                  lat>>
sfLookupRest == <<mainVars, m_streaming, streamThreads, m_currentFrame, frame, p_held,
                  p_released, wire, consumer, c_frames, c_held, gstc, hist, lat>>

SfThread == streamThreads[1]

\* A StartFrame that does not wait for the mutex.
PS_LockNoWait ==
    /\ SfThread.pc = "idle"
    /\ Len(hist.started) < MaxWrapStarted
    /\ producer' = [producer EXCEPT !.mutex = "thread"]
    /\ streamThreads' = <<[SfThread EXCEPT !.pc = "locked"]>>
    /\ UNCHANGED <<sfThreadRest, frameVars, hist>>

\* StartFrame takes the list mutex.
PS_Lock ==
    /\ SfThread.pc = "idle"
    /\ Len(hist.started) < MaxWrapStarted
    /\ producer.mutex = "free"
    /\ producer' = [producer EXCEPT !.mutex = "thread"]
    /\ streamThreads' = <<[SfThread EXCEPT !.pc = "locked"]>>
    /\ UNCHANGED <<sfThreadRest, frameVars, hist>>

\* The frame of the next sequence number is created and appended.
PS_Append ==
    /\ SfThread.pc = "locked"
    /\ m_frames' = Append(m_frames, m_currentFrame)
    /\ frame' = (m_currentFrame :> NewFrame(m_currentFrame)) @@ frame
    /\ m_currentFrame' = Inc32(m_currentFrame)
    /\ hist' = [hist EXCEPT !.started = Append(@, m_currentFrame)]
    /\ streamThreads' = <<[SfThread EXCEPT !.pc = "appended", !.cur = m_currentFrame]>>
    /\ UNCHANGED <<sfThreadRest, producer>>

\* StartFrame releases the mutex and returns the frame.
PS_Unlock ==
    /\ SfThread.pc = "appended"
    /\ producer' = [producer EXCEPT !.mutex = "free"]
    /\ streamThreads' = <<[SfThread EXCEPT !.pc = "idle"]>>
    /\ UNCHANGED <<sfThreadRest, frameVars, hist>>

\* GetFrame takes the list mutex, the pixel of the buffer at hand.
PS_GetFrameLock ==
    /\ cap.pc = "idle"
    /\ producer.mutex = "free"
    /\ \E pixel \in {FrameColor(m_frames[i].lo) : i \in 1..Len(m_frames)}
                       \cup {<<255, 255, 255>>} :
           cap' = [cap EXCEPT !.pc = "scan", !.pixel = pixel]
    /\ producer' = [producer EXCEPT !.mutex = "consumer"]
    /\ UNCHANGED <<sfLookupRest, m_frames, lastLookup>>

\* The scan from the newest frame to the oldest.
PS_GetFrameScan ==
    /\ cap.pc = "scan"
    /\ cap' = [cap EXCEPT !.pc = "trim",
                          !.found = FindNewest(Lows(m_frames), cap.pixel, Len(m_frames))]
    /\ UNCHANGED <<sfLookupRest, producer, m_frames, lastLookup>>

\* The frames older than the match are dropped and the mutex released.
PS_GetFrameTrim ==
    /\ cap.pc = "trim"
    /\ m_frames' = IF cap.found = 0 THEN m_frames
                   ELSE SubSeq(m_frames, cap.found, Len(m_frames))
    /\ lastLookup' = [pixel |-> cap.pixel, before |-> m_frames, after |-> m_frames',
                      result |-> IF cap.found = 0 THEN NoFrame ELSE m_frames[cap.found]]
    /\ producer' = [producer EXCEPT !.mutex = "free"]
    /\ cap' = [cap EXCEPT !.pc = "idle"]
    /\ UNCHANGED sfLookupRest

\* A producer just constructed, or one that has run until its counter is two
\* short of the wrap, the frame of the last lookup still retained.
PS_Init ==
    /\ MainIdle /\ pc = "startframe"
    /\ producer = [kind |-> "gl", env |-> "ok", state |-> "ok", mutex |-> "free"]
    /\ m_streaming = TRUE
    /\ streamThreads = <<[pc |-> "idle", cur |-> NoFrame]>>
    /\ \/ m_currentFrame = Zero32 /\ m_frames = <<>>
       \/ m_currentFrame = Dec32(Max32) /\ m_frames = <<Dec32(Dec32(Max32))>>
    /\ frame = [n \in SeqToSet(m_frames) |-> NewFrame(n)]
    /\ p_held = {} /\ p_released = NoReleases
    /\ wire = NoFrame
    /\ consumer = NoConsumer /\ c_frames = <<>> /\ c_held = {}
    /\ cap = NoCap @@ [pixel |-> <<0, 0, 0>>, found |-> 0]
    /\ gstc = NoGstc
    /\ hist = NoHist @@ [started |-> <<>>, origin |-> m_currentFrame]
    /\ lastLookup = NoLookup
    /\ lat = NoLat

PS_Next ==
    \/ PS_Lock
    \/ PS_Append
    \/ PS_Unlock
    \/ PS_GetFrameLock
    \/ PS_GetFrameScan
    \/ PS_GetFrameTrim

SpecStartFrame == PS_Init /\ [][PS_Next]_vars

\* A list of numbers in which each is the one before it plus one.
Consecutive32(list) == \A i \in 1..(Len(list) - 1) : list[i + 1] = Inc32(list[i])

\* C35: StartFrame hands out the sequence numbers from the counter's first
\* value on, each the one before plus 1 modulo 2^32 (0, 1, 2, ... for a
\* producer just constructed), and appends each frame under the list mutex;
\* the retained list is in creation order with no number twice and ends with
\* the newest frame; an append never falls between the lock and the unlock
\* of a lookup's scan and trim, nor a lookup's step inside StartFrame's.
C35_NumberedAndAppendedUnderMutex ==
    /\ Consecutive32(hist.started)
    /\ hist.started # <<>> => hist.started[1] = hist.origin
    /\ m_currentFrame = IF hist.started = <<>> THEN hist.origin
                        ELSE Inc32(Last(hist.started))
    /\ Consecutive32(m_frames)
    /\ Distinct(m_frames)
    /\ hist.started # <<>> => m_frames # <<>> /\ Last(m_frames) = Last(hist.started)
    /\ SfThread.pc \in {"locked", "appended"} =>
           producer.mutex = "thread" /\ cap.pc = "idle"
    /\ cap.pc \in {"scan", "trim"} =>
           producer.mutex = "consumer" /\ SfThread.pc = "idle"
    /\ cap.pc = "trim" =>
           cap.found = FindNewest(Lows(m_frames), cap.pixel, Len(m_frames))

\* The counter has wrapped: the frames 2^32 - 2, 2^32 - 1 and 0 were started
\* in this order, and a lookup of the second has dropped the first.
C35_Witness ==
    /\ hist.started = <<Dec32(Max32), Max32, Zero32>>
    /\ m_currentFrame = Inc32(Zero32)
    /\ m_frames = <<Max32, Zero32>>
    /\ lastLookup.result = Max32
    /\ cap.pc = "idle" /\ SfThread.pc = "idle"

(***************************************************************************)
(* The length of the producer's retained list over a run of main.          *)
(***************************************************************************)

\* C36: the retained list is shortened only by a GetFrame that finds a
\* frame, which leaves the match and the frames after it; while no lookup
\* has found one (no consumer, or the consumer still in its warm-up) the
\* list holds every frame started so far, a StartFrame adding one.
C36_RetainedUntilLookup ==
    /\ [](hist.resolved = <<>> => Len(m_frames) = m_currentFrame)
    /\ [][/\ Len(m_frames') < Len(m_frames) =>
                 /\ lastLookup'.result # NoFrame
                 /\ lastLookup'.before = m_frames
                 /\ m_frames' = lastLookup'.after
                 /\ m_frames'[1] = lastLookup'.result
                 /\ Len(hist'.resolved) = Len(hist.resolved) + 1
          /\ m_currentFrame' # m_currentFrame =>
                 /\ m_currentFrame' = m_currentFrame + 1
                 /\ m_frames' = Append(m_frames, m_currentFrame)]_vars

\* A lookup after a warm-up has found the second of the two frames started
\* until then, both retained, and has dropped the first.
C36_Witness ==
    /\ cap.warmupFrames >= 1
    /\ Len(hist.resolved) = 1
    /\ lastLookup.before = <<0, 1>>
    /\ lastLookup.result = 1
    /\ m_frames = <<1>>
    /\ m_currentFrame = 2

\* Without a consumer: the producer streams through the sleep of main and
\* every frame it started is retained.
C36_NoConsumer ==
    /\ opts.consumerType = "CONSUMER_NONE"
    /\ m_streaming
    /\ m_currentFrame >= 2
    /\ Len(m_frames) = m_currentFrame

(***************************************************************************)
(* SpecCudaAlloc: one call of CudaAlloc and the null check of its caller.  *)
(* lat holds the call: the caller, the format whose totalBytes is the      *)
(* size, enableRDMA, the local ptr ("uninitialized" as declared, "buffer"  *)
(* a device allocation, "null", or "indeterminate" for a value that is     *)
(* neither), whether the device allocation exists (allocated), the value   *)
(* returned and what the caller's check made of it.                        *)
(***************************************************************************)
CudaAllocCallers ==
    {"RunSimulatedProcessing", "V4L2Consumer::Initialize", "GLProducer::Initialize",
     "AJABase::OpenDevice", "GStreamerProducer::Initialize",
     "GStreamerConsumer::Initialize"}

caRest == <<mainVars, prodVars, consVars, hist, lastLookup>>

\* void* ptr; cudaMalloc(&ptr, size), its status ignored. When it fails the
\* local keeps the value it had, which was never set, unless the runtime
\* has stored null.
CA_cudaMalloc ==
    /\ lat.pc = "cudaMalloc"
    /\ \/ lat' = [lat EXCEPT !.pc = "rdma", !.cudaMalloc = "ok", !.ptr = "buffer",
                              !.allocated = TRUE]
       \/ \E left \in {"null", "indeterminate"} :
              lat' = [lat EXCEPT !.pc = "rdma", !.cudaMalloc = "fail", !.ptr = left]
    /\ UNCHANGED caRest

\* if (enableRDMA): cuPointerSetAttribute; on failure Error, cudaFree(ptr)
\* and return nullptr. return ptr otherwise. The attribute cannot be set on
\* a null pointer.
CA_SetAttribute ==
    /\ lat.pc = "rdma"
    /\ IF lat.enableRDMA
       THEN \/ /\ lat.ptr # "null"
                /\ lat' = [lat EXCEPT !.pc = "returned", !.attribute = "ok",
                                      !.result = lat.ptr]
                /\ UNCHANGED errors
            \/ /\ lat' = [lat EXCEPT !.pc = "returned", !.attribute = "fail",
                                      !.allocated = FALSE, !.result = "null"]
                /\ errors' = errors \cup {"Failed to set CU_POINTER_ATTRIBUTE_SYNC_MEMOPS"}
       ELSE /\ lat' = [lat EXCEPT !.pc = "returned", !.result = lat.ptr]
            /\ UNCHANGED errors
    /\ UNCHANGED <<mainRest, pc, prodVars, consVars, hist, lastLookup>>

\* The caller's if (!buf): the failure is reported, or the buffer used.
CA_NullCheck ==
    /\ lat.pc = "returned"
    /\ lat' = [lat EXCEPT !.pc = "checked",
                          !.caller_failed = (lat.result = "null")]
    /\ errors' = IF lat.result = "null"
                 THEN errors \cup {"Failed to allocate CUDA memory."}
                 ELSE errors
    /\ UNCHANGED <<mainRest, pc, prodVars, consVars, hist, lastLookup>>

CA_Init ==
    /\ MainIdle /\ pc = "cudaalloc"
    /\ producer = NoProducer
    /\ ProducerFresh
    /\ ConsumerIdle
    /\ hist = NoHist
    /\ lastLookup = NoLookup
    /\ \E caller \in CudaAllocCallers, format \in FormatNames, enableRDMA \in BOOLEAN :
           lat = [state |-> "CudaAlloc", pc |-> "cudaMalloc", caller |-> caller,
                  format |-> format, enableRDMA |-> enableRDMA,
                  ptr |-> "uninitialized", cudaMalloc |-> "none", attribute |-> "none",
                  allocated |-> FALSE, result |-> "none", caller_failed |-> FALSE]

CA_Next == CA_cudaMalloc \/ CA_SetAttribute \/ CA_NullCheck

SpecCudaAlloc == CA_Init /\ [][CA_Next]_vars

\* C37: CudaAlloc returns null whenever the device allocation fails or the
\* attribute cannot be set, nothing left allocated; a result that is not
\* null is an allocated buffer; so the caller's null check fails the caller
\* on every allocation failure.
C37_NullOnEveryFailure ==
    /\ lat.pc \in {"returned", "checked"} =>
           /\ (lat.cudaMalloc = "fail" \/ lat.attribute = "fail") =>
                  lat.result = "null" /\ ~lat.allocated
           /\ lat.result # "null" => lat.result = "buffer" /\ lat.allocated
    /\ lat.pc = "checked" =>
           (lat.caller_failed <=> (lat.cudaMalloc = "fail" \/ lat.attribute = "fail"))

\* What the code ensures: a failure to set the attribute returns null with
\* the allocation freed; after a successful cudaMalloc the result is the
\* buffer or null; and the caller fails exactly on a null result.
C37_NullOnAttributeFailure ==
    /\ lat.pc \in {"returned", "checked"} =>
           /\ lat.attribute = "fail" => lat.result = "null" /\ ~lat.allocated
           /\ lat.cudaMalloc = "ok" =>
                  /\ lat.result \in {"buffer", "null"}
                  /\ lat.result = "buffer" <=> lat.allocated
                  /\ lat.result = "null" <=> lat.attribute = "fail"
    /\ lat.pc = "checked" => (lat.caller_failed <=> lat.result = "null")

\* The buffer was allocated, the attribute could not be set: null returned,
\* the allocation freed, the caller failed.
C37_Witness ==
    /\ lat.pc = "checked"
    /\ lat.enableRDMA
    /\ lat.cudaMalloc = "ok" /\ lat.attribute = "fail"
    /\ lat.result = "null" /\ ~lat.allocated
    /\ lat.caller_failed

\* cudaMalloc failed without RDMA: the caller goes on with a pointer that
\* is no allocation.
C37_FailureMissed ==
    /\ lat.pc = "checked"
    /\ ~lat.enableRDMA
    /\ lat.cudaMalloc = "fail"
    /\ lat.result = "indeterminate"
    /\ ~lat.caller_failed

(***************************************************************************)
(* SpecWriteRGBA: a retained frame's colour written by CudaWriteRGBA and   *)
(* looked up from the buffer's first pixel. The 32-bit value is kept as    *)
(* its 16-bit halves, the buffer as the bytes of its first element in      *)
(* memory order. The retained list is a run of consecutive numbers; wire   *)
(* is the frame whose colour was written, cap holds the buffer.            *)
(***************************************************************************)
ColourPeriod == 4096

\* A value with blue in the lowest byte and red in the third.
Argb(r, g, b) == [hi |-> 255 * 256 + r, lo |-> g * 256 + b]

\* uint32_t abgr = (0xFF << 24) | (b << 16) | (g << 8) | (r << 0)
Abgr(r, g, b) == [hi |-> 255 * 256 + b, lo |-> g * 256 + r]

\* ptr[0] = value: the four bytes in memory, lowest first.
WordBytes(value) ==
    <<value.lo % 256, value.lo \div 256, value.hi % 256, value.hi \div 256>>

\* The first pixel's red, green and blue as GetFrame reads them.
FirstPixel(bytes) == <<bytes[1], bytes[2], bytes[3]>>

\* The retained lists explored: len consecutive numbers from first on.
Window(first, len) == [i \in 1..len |-> first + i - 1]
WindowStarts == {0, 7, ColourPeriod - 6}
WindowLengths == {1, 2, 17, ColourPeriod - 1, ColourPeriod, ColourPeriod + 1}

wrRest == <<mainVars, producer, m_streaming, streamThreads, m_currentFrame, frame, p_held,
            p_released, consumer, c_frames, c_held, gstc, hist, lat>>

\* CudaWriteRGBA(ptr, elementCount, frame->R(), frame->G(), frame->B()) for
\* the oldest, the middle or the newest retained frame.
WR_CudaWriteRGBA ==
    /\ cap.pc = "idle"
    /\ \E i \in {1, (Len(m_frames) + 1) \div 2, Len(m_frames)} :
           LET c == FrameColor(m_frames[i])
           IN  /\ wire' = m_frames[i]
               /\ cap' = [cap EXCEPT !.pc = "written",
                                     !.buffer = WordBytes(Abgr(c[1], c[2], c[3]))]
    /\ UNCHANGED <<wrRest, m_frames, lastLookup>>

\* m_producer->GetFrame(buffer)
WR_GetFrame ==
    /\ cap.pc = "written"
    /\ Lookup(FirstPixel(cap.buffer))
    /\ cap' = [cap EXCEPT !.pc = "idle"]
    /\ UNCHANGED <<wrRest, wire>>

WR_Init ==
    /\ MainIdle /\ pc = "writergba"
    /\ producer = [kind |-> "aja", env |-> "ok", state |-> "ok"]
    /\ m_streaming = TRUE
    /\ streamThreads = <<>>
    /\ \E first \in WindowStarts, len \in WindowLengths :
           /\ m_frames = Window(first, len)
           /\ m_currentFrame = first + len
    /\ frame = [n \in SeqToSet(m_frames) |-> NewFrame(n)]
    /\ p_held = {} /\ p_released = NoReleases
    /\ wire = NoFrame
    /\ consumer = NoConsumer /\ c_frames = <<>> /\ c_held = {}
    /\ cap = NoCap @@ [buffer |-> <<0, 0, 0, 0>>]
    /\ gstc = NoGstc
    /\ hist = NoHist
    /\ lastLookup = NoLookup
    /\ lat = NoLat

WR_Next == WR_CudaWriteRGBA \/ WR_GetFrame

SpecWriteRGBA == WR_Init /\ [][WR_Next]_vars

\* Two colours at least 16 apart in some channel.
Apart(c, d) == \E ch \in 1..3 : Abs(c[ch] - d[ch]) >= 2 * FUZZY_THRESHOLD

\* C38: the buffer written with frame F's colour holds red in its lowest
\* byte, then green, blue and 0xFF, and GetFrame resolves it to F and to no
\* other frame when F is retained among fewer than 4096 consecutive
\* numbers: F's colour recurs 4096 numbers on and is at least 16 apart in
\* some channel, more than the tolerance of 8, from the colour of every
\* number that differs from F modulo 4096.
C38_ResolvesToWrittenFrame ==
    wire # NoFrame =>
        LET c == FrameColor(wire)
        IN  /\ cap.pc = "written" => cap.buffer = <<c[1], c[2], c[3], 255>>
            /\ FrameColor(wire + ColourPeriod) = c
            /\ \A n \in 0..(ColourPeriod - 1) :
                   n # wire % ColourPeriod =>
                       Apart(FrameColor(n), c) /\ ~FuzzyMatch(n, c, FUZZY_THRESHOLD)
            /\ (cap.pc = "idle" /\ Len(lastLookup.before) < ColourPeriod) =>
                   /\ lastLookup.result = wire
                   /\ \A i \in 1..Len(lastLookup.before) :
                          FuzzyMatch(lastLookup.before[i], lastLookup.pixel,
                                     FUZZY_THRESHOLD)
                              => lastLookup.before[i] = wire
                   /\ lastLookup.after[1] = wire

\* The oldest of 4095 retained frames was written and resolved, the newer
\* frames kept.
C38_Witness ==
    /\ cap.pc = "idle"
    /\ Len(lastLookup.before) = ColourPeriod - 1
    /\ wire = lastLookup.before[1]
    /\ lastLookup.result = wire
    /\ lastLookup.after = lastLookup.before

\* With 4097 frames retained the oldest one's colour resolves to the frame
\* 4096 numbers after it.
C38_BeyondPeriod ==
    /\ cap.pc = "idle"
    /\ Len(lastLookup.before) = ColourPeriod + 1
    /\ wire = lastLookup.before[1]
    /\ lastLookup.result = wire + ColourPeriod

(***************************************************************************)
(* SpecFrameColor: the constructor of Frame over 32-bit numbers, kept as   *)
(* their 16-bit halves. frame holds the constructed frame with its three   *)
(* uint8_t colour members.                                                 *)
(***************************************************************************)

\* x & mask for a mask of `bits` ones from bit `low` on, and x >> n.
BitAnd(x, low, bits) == ((x \div (2 ^ low)) % (2 ^ bits)) * (2 ^ low)
ShiftRight(x, n) == x \div (2 ^ n)

\* The value an int takes in a uint8_t.
ToUint8(x) == x % 256

\* The channel values before they are stored, without the offset of 8.
ChannelsNoOffset(number) ==
    <<ShiftRight(BitAnd(number.lo, 8, 4), 8) * 16,
      ShiftRight(BitAnd(number.lo, 4, 4), 4) * 16,
      BitAnd(number.lo, 0, 4) * 16>>

\* ((number & 0xF00) >> 8) * 16 + 8, ((number & 0xF0) >> 4) * 16 + 8,
\* (number & 0xF) * 16 + 8: the masks reach into the low half only.
Channels(number) ==
    <<ShiftRight(BitAnd(number.lo, 8, 4), 8) * 16 + 8,
      ShiftRight(BitAnd(number.lo, 4, 4), 4) * 16 + 8,
      BitAnd(number.lo, 0, 4) * 16 + 8>>

\* A constructor that leaves the offset of 8 out.
Frame_FrameNoOffset(number) ==
    [m_number |-> number, m_duplicateReceives |-> 0,
     m_r |-> ToUint8(ChannelsNoOffset(number)[1]),
     m_g |-> ToUint8(ChannelsNoOffset(number)[2]),
     m_b |-> ToUint8(ChannelsNoOffset(number)[3])]

\* Frame::Frame(number)
Frame_Frame(number) ==
    [m_number |-> number, m_duplicateReceives |-> 0,
     m_r |-> ToUint8(Channels(number)[1]),
     m_g |-> ToUint8(Channels(number)[2]),
     m_b |-> ToUint8(Channels(number)[3])]

\* The numbers constructed: every low half of a period and a little more,
\* the ends of the half-word, under three high halves.
ColouredNumbers ==
    {[hi |-> hi, lo |-> lo] :
        hi \in {0, 1, HalfWord - 1},
        lo \in 0..(ColourPeriod + 15) \cup {HalfWord - ColourPeriod, HalfWord - 1}}

FC_Construct ==
    /\ frame = [n \in {} |-> NewFrame(n)]
    /\ frame' = (m_currentFrame :> Frame_Frame(m_currentFrame))
    /\ UNCHANGED <<mainVars, producer, m_streaming, streamThreads, m_currentFrame,
                   m_frames, p_held, p_released, wire, consVars, hist, lastLookup, lat>>

FC_Init ==
    /\ MainIdle /\ pc = "frame"
    /\ producer = NoProducer
    /\ m_streaming = FALSE
    /\ streamThreads = <<>>
    /\ m_currentFrame \in ColouredNumbers
    /\ m_frames = <<>>
    /\ frame = [n \in {} |-> NewFrame(n)]
    /\ p_held = {} /\ p_released = NoReleases
    /\ wire = NoFrame
    /\ ConsumerIdle
    /\ hist = NoHist
    /\ lastLookup = NoLookup
    /\ lat = NoLat

FC_Next == FC_Construct

SpecFrameColor == FC_Init /\ [][FC_Next]_vars

\* C39: the colour of the frame numbered n is r = ((n >> 8) & 0xF) * 16 + 8,
\* g = ((n >> 4) & 0xF) * 16 + 8, b = (n & 0xF) * 16 + 8; every channel is
\* one of 8, 24, ..., 248, never 0, and none exceeds 8 bits before it is
\* stored.
C39_ColourOfNumber ==
    \A n \in DOMAIN frame :
        LET f == frame[n]
            c == <<f.m_r, f.m_g, f.m_b>>
        IN  /\ c = <<(ShiftRight(n.lo, 8) % 16) * 16 + 8,
                      (ShiftRight(n.lo, 4) % 16) * 16 + 8,
                      (n.lo % 16) * 16 + 8>>
            /\ c = FrameColor(n.lo)
            /\ c = Channels(n)
            /\ \A ch \in 1..3 :
                   /\ c[ch] \in {16 * k + 8 : k \in 0..15}
                   /\ c[ch] >= 8 /\ c[ch] <= 248

\* The frame 2^32 - 1 has been constructed, every channel at its largest.
C39_Witness ==
    /\ Max32 \in DOMAIN frame
    /\ frame[Max32].m_r = 248 /\ frame[Max32].m_g = 248 /\ frame[Max32].m_b = 248

(***************************************************************************)
(* SpecParse: ParseArguments over every argument list of up to MaxArgs     *)
(* words: flags with and without a value, values, and words that are no    *)
(* flag.                                                                   *)
(***************************************************************************)
MaxArgs == 4

ArgWords == {"-h", "-n", "-o", "-p", "gl", "2", "5", "--verbose"}

RECURSIVE WordLists(_)
WordLists(n) ==
    IF n = 0 THEN {<<>>}
    ELSE WordLists(n - 1) \cup
         {Append(a, w) : a \in {b \in WordLists(n - 1) : Len(b) = n - 1}, w \in ArgWords}

PA_ParseArguments == M_ParseArguments

PA_Init ==
    /\ build = [aja |-> TRUE, deepstream |-> TRUE]
    /\ argv \in WordLists(MaxArgs)
    /\ opts = ProgramOptions
    /\ pc = "start"
    /\ exitCode = 0
    /\ errors = {}
    /\ calls = <<>>
    /\ outputFile = "closed"
    /\ producer = NoProducer
    /\ ProducerFresh
    /\ ConsumerIdle
    /\ hist = NoHist
    /\ lastLookup = NoLookup
    /\ lat = NoLat

PA_Next == PA_ParseArguments

SpecParse == PA_Init /\ [][PA_Next]_vars

\* The positions of a at which the loop of ParseArguments compares the word
\* with the flags, from position i on: the word after a flag that takes a
\* value is passed over.
RECURSIVE FlagPositions(_, _)
FlagPositions(a, i) ==
    IF i > Len(a) THEN {}
    ELSE {i} \cup FlagPositions(a, IF a[i] \in ValueFlags THEN i + 2 ELSE i + 1)

RecognizedFlags == ValueFlags \cup {"-h", "--help"}

\* a without its i-th word.
Without(a, i) == SubSeq(a, 1, i - 1) \o SubSeq(a, i + 1, Len(a))

\* The value the last occurrence of flag in flag position has in a; "" when
\* the flag does not occur.
LastValue(a, flag) ==
    LET at == {i \in FlagPositions(a, 1) : a[i] = flag /\ i < Len(a)}
    IN  IF at = {} THEN "" ELSE a[(CHOOSE i \in at : \A j \in at : j <= i) + 1]

\* C40: after ParseArguments, a word in flag position that is no recognized
\* flag has changed no option and raised no error (the outcome is that of
\* the arguments without it); a word consumed as a flag's value is not
\* taken for a flag, so the usage is printed only for a -h in flag position;
\* and of a repeated flag the last occurrence decides the option.
C40_ParsedByPosition ==
    pc # "start" =>
        LET r == ParseArguments(argv)
            flags == FlagPositions(argv, 1)
        IN  /\ pc = "parsed" <=> r.exit = "no"
            /\ pc = "parsed" => opts = r.opts
            /\ \A i \in flags :
                   argv[i] \notin RecognizedFlags =>
                       ParseArguments(Without(argv, i)) = r
            /\ (pc = "exited" /\ exitCode = 0) =>
                   \E i \in flags : argv[i] \in {"-h", "--help"}
            /\ pc = "parsed" =>
                   /\ \A i \in flags : argv[i] \notin {"-h", "--help"}
                   /\ LastValue(argv, "-n") # "" =>
                          opts.numFrames = StrToL(LastValue(argv, "-n"))
                   /\ LastValue(argv, "-o") # "" =>
                          opts.outputFilename = LastValue(argv, "-o")
                   /\ LastValue(argv, "-p") # "" =>
                          LastValue(argv, "-p") = "gl" /\ opts.producerType = "PRODUCER_GL"

\* -h was the value of -o after a word that is no flag: the output file is
\* named -h and nothing else has changed.
C40_Witness ==
    /\ argv = <<"--verbose", "-o", "-h">>
    /\ pc = "parsed"
    /\ opts = [ProgramOptions EXCEPT !.outputFilename = "-h"]
    /\ errors = {}

\* -n was given twice: the second value is the one kept.
C40_LastWins ==
    /\ argv = <<"-n", "2", "-n", "5">>
    /\ pc = "parsed"
    /\ opts = [ProgramOptions EXCEPT !.numFrames = 5]

====
